---- MODULE Spec2Model ----
(***************************************************************************)
(* Cache subsystem of supuwoerc/utils: the doubly linked list with node    *)
(* handles (src/src/doubly-linked-list.ts), the recency caches LRUCache    *)
(* and LRUCacheWithTTL, the TTL envelope ValueWithTTL (src/src/lru.ts)     *)
(* and the frequency caches LFUCache and LFUCacheWithTTL (src/src/lfu.ts). *)
(*                                                                         *)
(* Nodes live in a heap (nodes) and are linked by prev/next references,    *)
(* as in the source.  A method that throws leaves the assignments it made  *)
(* before the throw in place.  The operators return the call's result and *)
(* whether it threw together with the state the call leaves.               *)
(***************************************************************************)
EXTENDS Integers, Sequences, FiniteSets, TLC

VARIABLES
  variant,    \* which class the cache object is an instance of
  capacity,   \* #capacity
  ttl,        \* #ttl of the TTL caches (0 for the others)
  now,        \* Date.now()
  nodes,      \* the heap: node id -> [value, prev, next, key, freq]
  cache,      \* #cache: own property name -> node id
  list,       \* #doublyLinkedList of the recency caches: [head, tail, size]
  freqMap,    \* #freqMap of the frequency caches: freq -> [head, tail, size]
  minFreq,    \* #minFreq
  lfuSize,    \* #size of the frequency caches
  arrivals,   \* history of the frequency caches: freq -> the keys that reached it, latest first
  tv,         \* a stand-alone ValueWithTTL object: [value, expiry, ttl]
  held        \* the list nodes the caller of a stand-alone list has a reference to

vars == <<variant, capacity, ttl, now, nodes, cache, list, freqMap, minFreq,
          lfuSize, arrivals, tv, held>>

----------------------------------------------------------------------------
(* Bounds *)

MaxCapacity == 2
TTL == 2
MaxTime == 2
MaxFreq == 3
MaxValueTTL == 3
MaxClock == 5
MaxCtorArg == 7
MaxNodes == 3
MaxSize == 3
MaxLen == 6

Values == {"v1", "v2"}

----------------------------------------------------------------------------
(* JavaScript values: undefined, keys (string | number | symbol), node refs *)

Undefined == [t |-> "undefined"]

KZero == [t |-> "number", rep |-> "0"]
KStrZero == [t |-> "string", rep |-> "0"]
KEmpty == [t |-> "string", rep |-> ""]
KA == [t |-> "string", rep |-> "a"]
KSym == [t |-> "symbol", rep |-> "s"]
KObjA == [t |-> "object", rep |-> "a"]
KObjB == [t |-> "object", rep |-> "b"]

Keys == {KZero, KEmpty, KSym}

\* the values a call of set offers for a key: both for the key '', one for the others
ValuesOf(k) == IF k = KEmpty THEN Values ELSE {"v1"}

\* ToPropertyKey: a number key is stored under its decimal string, an object under
\* the string its toString gives, a string or a symbol under itself
PropName(k) ==
  CASE k.t = "number" -> [t |-> "string", rep |-> k.rep]
    [] k.t = "object" -> [t |-> "string", rep |-> "[object Object]"]
    [] OTHER -> k

PropNames == {PropName(k) : k \in Keys}

NodeIds == 1 .. (Cardinality(PropNames) + 1)

Ref(n) == [t |-> "node", id |-> n]

IsRef(x) == x.t = "node"

\* ToBoolean of a reference, a key or undefined (0 and '' are falsy)
Truthy(x) ==
  CASE x.t = "undefined" -> FALSE
    [] x.t = "number" -> x.rep # "0"
    [] x.t = "string" -> x.rep # ""
    [] OTHER -> TRUE

----------------------------------------------------------------------------
(* DoublyLinkedListNode and DoublyLinkedList (src/src/doubly-linked-list.ts) *)

\* new DoublyLinkedListNode(value, prev, next): a plain node has no key and no
\* freq property; reading a missing property gives undefined
DoublyLinkedListNode(value, prev, next) ==
  [value |-> value, prev |-> prev, next |-> next, key |-> Undefined, freq |-> 0]

\* new DoublyLinkedList(): #head and #tail undefined, #size 0
EmptyList == [head |-> Undefined, tail |-> Undefined, size |-> 0]

\* get isEmpty
IsEmpty(L) == L.size = 0

\* a fixed numbering of the property names
PropIndex(p) ==
  CASE p = PropName(KZero) -> 1
    [] p = PropName(KEmpty) -> 2
    [] p = PropName(KA) -> 3
    [] OTHER -> 4

\* the identity of a fresh object made for key: any id that is not allocated; the id
\* numbered like the key when it is free, else the smallest free one
NewNodeId(ns, key) ==
  IF PropIndex(PropName(key)) \notin DOMAIN ns THEN PropIndex(PropName(key))
  ELSE CHOOSE n \in NodeIds \ DOMAIN ns : \A m \in NodeIds \ DOMAIN ns : n <= m

Fuel == Cardinality(NodeIds) + 1

\* the loop of #isNodeInList: follow next from cur until node is met or the chain ends
RECURSIVE WalkNext(_, _, _, _)
WalkNext(ns, cur, n, fuel) ==
  IF ~Truthy(cur) \/ ~IsRef(cur) \/ fuel = 0 THEN FALSE
  ELSE IF cur.id = n THEN TRUE
  ELSE WalkNext(ns, ns[cur.id].next, n, fuel - 1)

IsNodeInList(ns, L, n) == WalkNext(ns, L.head, n, Fuel)

\* removeTail(): [node, threw, nodes, list]; threw is the TypeError of a read or write
\* through an undefined tail or tail.prev
RemoveTail(ns, L) ==
  IF IsEmpty(L) THEN [node |-> Undefined, threw |-> FALSE, nodes |-> ns, list |-> L]
  ELSE IF L.head = L.tail
  THEN [node |-> L.head, threw |-> FALSE, nodes |-> ns, list |-> EmptyList]
  ELSE IF ~IsRef(L.tail) THEN [node |-> Undefined, threw |-> TRUE, nodes |-> ns, list |-> L]
  ELSE LET node == L.tail
           prev == ns[node.id].prev
           ns1 == [ns EXCEPT ![node.id].prev = Undefined]
       IN IF ~IsRef(prev) THEN [node |-> Undefined, threw |-> TRUE, nodes |-> ns1, list |-> L]
          ELSE [node |-> node, threw |-> FALSE,
                nodes |-> [ns1 EXCEPT ![prev.id].next = Undefined],
                list |-> [head |-> L.head, tail |-> prev, size |-> L.size - 1]]

OwnershipError == "node is already part of a list"

\* addToHead(node): [threw, err, nodes, list]
AddToHead(ns, L, n) ==
  IF ns[n].prev # Undefined \/ ns[n].next # Undefined
  THEN [threw |-> TRUE, err |-> OwnershipError, nodes |-> ns, list |-> L]
  ELSE IF IsEmpty(L)
  THEN [threw |-> FALSE, err |-> "none", nodes |-> ns,
        list |-> [head |-> Ref(n), tail |-> Ref(n), size |-> L.size + 1]]
  ELSE IF ~IsRef(L.head)
  THEN [threw |-> TRUE, err |-> "TypeError", nodes |-> ns, list |-> L]
  ELSE LET ns1 == [ns EXCEPT ![L.head.id].prev = Ref(n)]
           ns2 == [ns1 EXCEPT ![n].next = L.head]
       IN [threw |-> FALSE, err |-> "none", nodes |-> ns2,
           list |-> [head |-> Ref(n), tail |-> L.tail, size |-> L.size + 1]]

\* mutant: removeNode relinks forwards only, node.next.prev is left pointing at node
RemoveNodeOneWay(ns, L, n) ==
  IF IsEmpty(L) \/ ~IsNodeInList(ns, L, n) THEN [ok |-> FALSE, nodes |-> ns, list |-> L]
  ELSE LET p == ns[n].prev
           x == ns[n].next
           ns1 == IF IsRef(p) THEN [ns EXCEPT ![p.id].next = x] ELSE ns
           L1 == [head |-> IF IsRef(p) THEN L.head ELSE x,
                  tail |-> IF IsRef(x) THEN L.tail ELSE p,
                  size |-> L.size - 1]
       IN [ok |-> TRUE, nodes |-> [ns1 EXCEPT ![n].prev = Undefined, ![n].next = Undefined],
           list |-> L1]

\* removeNode(node): [ok, nodes, list]
RemoveNode(ns, L, n) ==
  IF IsEmpty(L) \/ ~IsNodeInList(ns, L, n)
  THEN [ok |-> FALSE, nodes |-> ns, list |-> L]
  ELSE LET prev == ns[n].prev
           next == ns[n].next
           ns1 == IF Truthy(prev) THEN [ns EXCEPT ![prev.id].next = next] ELSE ns
           head1 == IF Truthy(prev) THEN L.head ELSE next
           ns2 == IF Truthy(next) THEN [ns1 EXCEPT ![next.id].prev = prev] ELSE ns1
           tail1 == IF Truthy(next) THEN L.tail ELSE prev
           ns3 == [ns2 EXCEPT ![n].prev = Undefined, ![n].next = Undefined]
       IN [ok |-> TRUE, nodes |-> ns3,
           list |-> [head |-> head1, tail |-> tail1, size |-> L.size - 1]]

\* the node ids met from head by next links (head first)
RECURSIVE ChainFrom(_, _, _)
ChainFrom(ns, cur, fuel) ==
  IF ~IsRef(cur) \/ fuel = 0 THEN <<>>
  ELSE <<cur.id>> \o ChainFrom(ns, ns[cur.id].next, fuel - 1)

ListNodes(ns, L) == ChainFrom(ns, L.head, Fuel)

SeqToSet(s) == {s[i] : i \in 1 .. Len(s)}

----------------------------------------------------------------------------
(* Object maps (#cache, #freqMap) and the heap *)

MapEmpty == [q \in {} |-> 0]

MapPut(c, p, x) == [q \in DOMAIN c \cup {p} |-> IF q = p THEN x ELSE c[q]]

MapDelete(c, p) == [q \in DOMAIN c \ {p} |-> c[q]]

\* the nodes a set of nodes refers to through prev and next
Neighbours(ns, S) ==
  {ns[n].prev.id : n \in {m \in S : IsRef(ns[m].prev)}}
    \cup {ns[n].next.id : n \in {m \in S : IsRef(ns[m].next)}}

RECURSIVE Reachable(_, _)
Reachable(ns, S) ==
  LET T == S \cup (Neighbours(ns, S) \cap DOMAIN ns)
  IN IF T = S THEN S ELSE Reachable(ns, T)

\* garbage collection: only the nodes reachable from the roots stay in the heap
Collect(ns, roots) == [n \in Reachable(ns, roots \cap DOMAIN ns) |-> ns[n]]

Range(f) == {f[x] : x \in DOMAIN f}

----------------------------------------------------------------------------
(* ValueWithTTL (src/src/lru.ts) *)

\* new ValueWithTTL(value, ttl) at time t
ValueWithTTL(value, d, t) == [value |-> value, expiry |-> t + d, ttl |-> d]

\* mutant: expired only strictly after the expiry
IsExpiredLate(v, t) == v.expiry < t

\* isExpired() at time t
IsExpired(v, t) == v.expiry <= t

\* resetTTL() at time t
ResetTTL(v, t) == [v EXCEPT !.expiry = t + v.ttl]

----------------------------------------------------------------------------
(* LRUCache (src/src/lru.ts).  st = [nodes, cache, list] *)

LRUHas(st, key) == PropName(key) \in DOMAIN st.cache

\* the eviction of set: removeTail, then delete this.#cache[tail.key] if (tail && tail.key)
LRUEvict(st) ==
  LET t == RemoveTail(st.nodes, st.list)
      tk == IF IsRef(t.node) THEN t.nodes[t.node.id].key ELSE Undefined
  IN [nodes |-> t.nodes,
      cache |-> IF Truthy(t.node) /\ Truthy(tk) THEN MapDelete(st.cache, PropName(tk))
                ELSE st.cache,
      list |-> t.list]

\* set(key, value): [threw, st]
LRUSet(st, key, value) ==
  LET p == PropName(key) IN
  IF LRUHas(st, key)
  THEN LET n == st.cache[p]
           ns1 == [st.nodes EXCEPT ![n].value = value]
           r1 == RemoveNode(ns1, st.list, n)
           r2 == AddToHead(r1.nodes, r1.list, n)
       IN [threw |-> r2.threw,
           st |-> [nodes |-> r2.nodes, cache |-> st.cache, list |-> r2.list]]
  ELSE LET n == NewNodeId(st.nodes, key)
           ns1 == MapPut(st.nodes, n, DoublyLinkedListNode(value, key, Undefined))
           c1 == MapPut(st.cache, p, n)
           r1 == AddToHead(ns1, st.list, n)
           st1 == [nodes |-> r1.nodes, cache |-> c1, list |-> r1.list]
       IN IF r1.threw THEN [threw |-> TRUE, st |-> st1]
          ELSE IF r1.list.size > capacity THEN [threw |-> FALSE, st |-> LRUEvict(st1)]
          ELSE [threw |-> FALSE, st |-> st1]

\* get(key): [threw, ret, st]
LRUGet(st, key) ==
  IF LRUHas(st, key)
  THEN LET n == st.cache[PropName(key)]
           r1 == RemoveNode(st.nodes, st.list, n)
           r2 == AddToHead(r1.nodes, r1.list, n)
       IN [threw |-> r2.threw, ret |-> r2.nodes[n].value,
           st |-> [nodes |-> r2.nodes, cache |-> st.cache, list |-> r2.list]]
  ELSE [threw |-> FALSE, ret |-> "undefined", st |-> st]

\* clear()
LRUClear(st) == [nodes |-> st.nodes, cache |-> MapEmpty, list |-> EmptyList]

\* delete(key): [ret, st]
LRUDelete(st, key) ==
  IF LRUHas(st, key)
  THEN LET n == st.cache[PropName(key)]
           r == RemoveNode(st.nodes, st.list, n)
       IN [ret |-> r.ok,
           st |-> [nodes |-> r.nodes, cache |-> MapDelete(st.cache, PropName(key)),
                   list |-> r.list]]
  ELSE [ret |-> FALSE, st |-> st]

----------------------------------------------------------------------------
(* LRUCacheWithTTL (src/src/lru.ts).  st = [nodes, cache, list], t = Date.now() *)

\* mutant: has of an entry that is not expired resets its expiry
LRUTTLHasRenews(st, key, t) ==
  LET p == PropName(key) IN
  IF p \in DOMAIN st.cache
  THEN LET n == st.cache[p] IN
       IF IsExpired(st.nodes[n].value, t)
       THEN LET r == RemoveNode(st.nodes, st.list, n)
            IN [ret |-> FALSE,
                st |-> [nodes |-> r.nodes, cache |-> MapDelete(st.cache, p), list |-> r.list]]
       ELSE [ret |-> TRUE,
             st |-> [st EXCEPT !.nodes[n].value = ResetTTL(st.nodes[n].value, t)]]
  ELSE [ret |-> FALSE, st |-> st]

\* has(key): [ret, st]; an expired entry is deleted from the map and removed from the list
LRUTTLHas(st, key, t) ==
  LET p == PropName(key) IN
  IF p \in DOMAIN st.cache
  THEN LET n == st.cache[p] IN
       IF IsExpired(st.nodes[n].value, t)
       THEN LET r == RemoveNode(st.nodes, st.list, n)
            IN [ret |-> FALSE,
                st |-> [nodes |-> r.nodes, cache |-> MapDelete(st.cache, p), list |-> r.list]]
       ELSE [ret |-> TRUE, st |-> st]
  ELSE [ret |-> FALSE, st |-> st]

\* set(key, value): [threw, st]
LRUTTLSet(st, key, value, t) ==
  LET p == PropName(key)
      h == LRUTTLHas(st, key, t)
      s0 == h.st
  IN
  IF h.ret
  THEN LET n == s0.cache[p]
           ns1 == [s0.nodes EXCEPT ![n].value = ValueWithTTL(value, ttl, t)]
           r1 == RemoveNode(ns1, s0.list, n)
           r2 == AddToHead(r1.nodes, r1.list, n)
       IN [threw |-> r2.threw,
           st |-> [nodes |-> r2.nodes, cache |-> s0.cache, list |-> r2.list]]
  ELSE LET n == NewNodeId(s0.nodes, key)
           ns1 == MapPut(s0.nodes, n,
                         DoublyLinkedListNode(ValueWithTTL(value, ttl, t), key, Undefined))
           c1 == MapPut(s0.cache, p, n)
           r1 == AddToHead(ns1, s0.list, n)
           st1 == [nodes |-> r1.nodes, cache |-> c1, list |-> r1.list]
       IN IF r1.threw THEN [threw |-> TRUE, st |-> st1]
          ELSE IF r1.list.size > capacity THEN [threw |-> FALSE, st |-> LRUEvict(st1)]
          ELSE [threw |-> FALSE, st |-> st1]

\* get(key): [threw, ret, st]
LRUTTLGet(st, key, t) ==
  LET h == LRUTTLHas(st, key, t)
      s0 == h.st
  IN
  IF h.ret
  THEN LET n == s0.cache[PropName(key)]
           ns1 == [s0.nodes EXCEPT ![n].value = ResetTTL(s0.nodes[n].value, t)]
           r1 == RemoveNode(ns1, s0.list, n)
           r2 == AddToHead(r1.nodes, r1.list, n)
       IN [threw |-> r2.threw, ret |-> r2.nodes[n].value.value,
           st |-> [nodes |-> r2.nodes, cache |-> s0.cache, list |-> r2.list]]
  ELSE [threw |-> FALSE, ret |-> "undefined", st |-> s0]

\* the keys a for...in loop over #cache visits: the string-named own properties
ForInKeys(c) == {p \in DOMAIN c : p.t = "string"}

\* cleanupExpired(): [count, st]; todo is the set of properties still to visit
RECURSIVE LRUTTLCleanupLoop(_, _, _, _)
LRUTTLCleanupLoop(st, todo, count, t) ==
  IF todo = {} THEN [count |-> count, st |-> st]
  ELSE LET k == CHOOSE q \in todo : TRUE
           n == st.cache[k]
       IN IF IsExpired(st.nodes[n].value, t)
          THEN LET r == RemoveNode(st.nodes, st.list, n)
               IN LRUTTLCleanupLoop(
                    [nodes |-> r.nodes, cache |-> MapDelete(st.cache, k), list |-> r.list],
                    todo \ {k}, count + 1, t)
          ELSE LRUTTLCleanupLoop(st, todo \ {k}, count, t)

LRUTTLCleanupExpired(st, t) == LRUTTLCleanupLoop(st, ForInKeys(st.cache), 0, t)

\* clear()
LRUTTLClear(st) == [nodes |-> st.nodes, cache |-> MapEmpty, list |-> EmptyList]

\* delete(key): [ret, st]
LRUTTLDelete(st, key, t) ==
  LET h == LRUTTLHas(st, key, t)
      s0 == h.st
  IN
  IF h.ret
  THEN LET n == s0.cache[PropName(key)]
           r == RemoveNode(s0.nodes, s0.list, n)
       IN [ret |-> r.ok,
           st |-> [nodes |-> r.nodes, cache |-> MapDelete(s0.cache, PropName(key)),
                   list |-> r.list]]
  ELSE [ret |-> FALSE, st |-> s0]

----------------------------------------------------------------------------
(* LFUCache (src/src/lfu.ts).  st = [nodes, cache, freqMap, minFreq, size] *)

\* new LFUCacheNode(key, value, freq): super(value) leaves prev and next undefined
LFUCacheNode(key, value, freq) ==
  [value |-> value, prev |-> Undefined, next |-> Undefined, key |-> key, freq |-> freq]

SetMin(S) == CHOOSE x \in S : \A y \in S : x <= y

\* #findMinFreq(): the smallest key of #freqMap, 0 when it has none
FindMinFreq(fm) == IF DOMAIN fm = {} THEN 0 ELSE SetMin(DOMAIN fm)

LFUHas(st, key) == PropName(key) \in DOMAIN st.cache

\* #addToFreqList(freq, node): [threw, st]
LFUAddToFreqList(st, freq, n) ==
  LET fm1 == IF freq \in DOMAIN st.freqMap THEN st.freqMap
             ELSE MapPut(st.freqMap, freq, EmptyList)
      r == AddToHead(st.nodes, fm1[freq], n)
  IN [threw |-> r.threw,
      st |-> [st EXCEPT !.nodes = r.nodes, !.freqMap = MapPut(fm1, freq, r.list)]]

\* mutant: the node moves to the next list but its freq field is not raised
LFUIncreaseFreqStale(st, n) ==
  LET oldFreq == st.nodes[n].freq IN
  IF oldFreq \notin DOMAIN st.freqMap THEN [threw |-> TRUE, st |-> st]
  ELSE LET r == RemoveNode(st.nodes, st.freqMap[oldFreq], n)
           mf == IF IsEmpty(r.list) /\ oldFreq = st.minFreq THEN st.minFreq + 1
                 ELSE st.minFreq
           st1 == [st EXCEPT !.nodes = r.nodes, !.freqMap = MapPut(st.freqMap, oldFreq, r.list),
                             !.minFreq = mf]
       IN LFUAddToFreqList(st1, oldFreq + 1, n)

\* #increaseFreq(node): [threw, st]
LFUIncreaseFreq(st, n) ==
  LET oldFreq == st.nodes[n].freq IN
  IF oldFreq \notin DOMAIN st.freqMap THEN [threw |-> TRUE, st |-> st]
  ELSE LET r == RemoveNode(st.nodes, st.freqMap[oldFreq], n)
           mf == IF IsEmpty(r.list) /\ oldFreq = st.minFreq THEN st.minFreq + 1
                 ELSE st.minFreq
           ns1 == [r.nodes EXCEPT ![n].freq = oldFreq + 1]
           st1 == [st EXCEPT !.nodes = ns1, !.freqMap = MapPut(st.freqMap, oldFreq, r.list),
                             !.minFreq = mf]
       IN LFUAddToFreqList(st1, oldFreq + 1, n)

\* mutant: the head of the minimum-frequency list is evicted
LFURemoveMinFreqHead(st) ==
  IF st.minFreq \notin DOMAIN st.freqMap THEN [threw |-> TRUE, st |-> st]
  ELSE LET L == st.freqMap[st.minFreq] IN
       IF ~IsRef(L.head) THEN [threw |-> TRUE, st |-> st]
       ELSE LET n == L.head.id
                r == RemoveNode(st.nodes, L, n)
                c1 == MapDelete(st.cache, PropName(st.nodes[n].key))
                fm1 == IF IsEmpty(r.list) THEN MapDelete(st.freqMap, st.minFreq)
                       ELSE MapPut(st.freqMap, st.minFreq, r.list)
            IN [threw |-> FALSE,
                st |-> [nodes |-> r.nodes, cache |-> c1, freqMap |-> fm1,
                        minFreq |-> IF IsEmpty(r.list) THEN FindMinFreq(fm1) ELSE st.minFreq,
                        size |-> st.size - 1]]

\* #removeMinFreqNode(): [threw, st]
LFURemoveMinFreqNode(st) ==
  IF st.minFreq \notin DOMAIN st.freqMap THEN [threw |-> TRUE, st |-> st]
  ELSE LET t == RemoveTail(st.nodes, st.freqMap[st.minFreq]) IN
       IF ~IsRef(t.node) THEN [threw |-> TRUE, st |-> st]
       ELSE LET c1 == MapDelete(st.cache, PropName(t.nodes[t.node.id].key))
                fm1 == IF IsEmpty(t.list) THEN MapDelete(st.freqMap, st.minFreq)
                       ELSE MapPut(st.freqMap, st.minFreq, t.list)
            IN [threw |-> FALSE,
                st |-> [nodes |-> t.nodes, cache |-> c1, freqMap |-> fm1,
                        minFreq |-> IF IsEmpty(t.list) THEN FindMinFreq(fm1) ELSE st.minFreq,
                        size |-> st.size - 1]]

\* mutant: set of a new key evicts only when size is above the capacity
LFUInsertWhenOver(st, key, value) ==
  LET e == IF st.size > capacity THEN LFURemoveMinFreqNode(st)
           ELSE [threw |-> FALSE, st |-> st]
  IN IF e.threw THEN e
     ELSE LET s1 == e.st
              n == NewNodeId(s1.nodes, key)
              s2 == [s1 EXCEPT !.nodes = MapPut(s1.nodes, n, LFUCacheNode(key, value, 1)),
                               !.cache = MapPut(s1.cache, PropName(key), n)]
              a == LFUAddToFreqList(s2, 1, n)
          IN IF a.threw THEN a
             ELSE [threw |-> FALSE,
                   st |-> [a.st EXCEPT !.minFreq = 1, !.size = a.st.size + 1]]

\* mutant: set of a new key leaves #minFreq as the eviction left it
LFUInsertKeepsMin(st, key, value) ==
  LET e == IF st.size >= capacity THEN LFURemoveMinFreqNode(st)
           ELSE [threw |-> FALSE, st |-> st]
  IN IF e.threw THEN e
     ELSE LET s1 == e.st
              n == NewNodeId(s1.nodes, key)
              s2 == [s1 EXCEPT !.nodes = MapPut(s1.nodes, n, LFUCacheNode(key, value, 1)),
                               !.cache = MapPut(s1.cache, PropName(key), n)]
              a == LFUAddToFreqList(s2, 1, n)
          IN IF a.threw THEN a
             ELSE [threw |-> FALSE, st |-> [a.st EXCEPT !.size = a.st.size + 1]]

\* the insertion of a new key in set: evict when full, then add with freq 1
LFUInsert(st, key, value) ==
  LET e == IF st.size >= capacity THEN LFURemoveMinFreqNode(st)
           ELSE [threw |-> FALSE, st |-> st]
  IN IF e.threw THEN e
     ELSE LET s1 == e.st
              n == NewNodeId(s1.nodes, key)
              s2 == [s1 EXCEPT !.nodes = MapPut(s1.nodes, n, LFUCacheNode(key, value, 1)),
                               !.cache = MapPut(s1.cache, PropName(key), n)]
              a == LFUAddToFreqList(s2, 1, n)
          IN IF a.threw THEN a
             ELSE [threw |-> FALSE,
                   st |-> [a.st EXCEPT !.minFreq = 1, !.size = a.st.size + 1]]

\* set(key, value): [threw, st]
LFUSet(st, key, value) ==
  IF LFUHas(st, key)
  THEN LET n == st.cache[PropName(key)]
       IN LFUIncreaseFreq([st EXCEPT !.nodes[n].value = value], n)
  ELSE LFUInsert(st, key, value)

\* mutant: get returns the value and leaves the frequency alone
LFUGetNoPromote(st, key) ==
  IF ~LFUHas(st, key) THEN [threw |-> FALSE, ret |-> "undefined", st |-> st]
  ELSE [threw |-> FALSE, ret |-> st.nodes[st.cache[PropName(key)]].value, st |-> st]

\* get(key): [threw, ret, st]
LFUGet(st, key) ==
  IF ~LFUHas(st, key) THEN [threw |-> FALSE, ret |-> "undefined", st |-> st]
  ELSE LET n == st.cache[PropName(key)]
           r == LFUIncreaseFreq(st, n)
       IN [threw |-> r.threw, ret |-> r.st.nodes[n].value, st |-> r.st]

\* clear()
LFUClear(st) ==
  [nodes |-> st.nodes, cache |-> MapEmpty, freqMap |-> MapEmpty, minFreq |-> 0, size |-> 0]

\* delete(key): [threw, ret, st]
LFUDelete(st, key) ==
  IF LFUHas(st, key)
  THEN LET p == PropName(key)
           n == st.cache[p]
           freq == st.nodes[n].freq
           c1 == MapDelete(st.cache, p)
       IN IF freq \notin DOMAIN st.freqMap
          THEN [threw |-> TRUE, ret |-> FALSE, st |-> [st EXCEPT !.cache = c1]]
          ELSE LET r == RemoveNode(st.nodes, st.freqMap[freq], n)
                   fm1 == IF IsEmpty(r.list) THEN MapDelete(st.freqMap, freq)
                          ELSE MapPut(st.freqMap, freq, r.list)
                   mf == IF IsEmpty(r.list) /\ freq = st.minFreq THEN FindMinFreq(fm1)
                         ELSE st.minFreq
               IN [threw |-> FALSE, ret |-> TRUE,
                   st |-> [nodes |-> r.nodes, cache |-> c1, freqMap |-> fm1,
                           minFreq |-> mf, size |-> st.size - 1]]
  ELSE [threw |-> FALSE, ret |-> FALSE, st |-> st]

----------------------------------------------------------------------------
(* LFUCacheWithTTL (src/src/lfu.ts).  st as for LFUCache, t = Date.now().   *)
(* A definition named ...After... is the rest of a method after the call    *)
(* whose result it takes as its first argument after st.                    *)

\* #removeNodeCompletely after freqList.removeNode(node) returned r
LFUTTLAfterRemoveNode(st, freq, r) ==
  LET fm1 == IF IsEmpty(r.list) THEN MapDelete(st.freqMap, freq)
             ELSE MapPut(st.freqMap, freq, r.list)
  IN [st EXCEPT !.nodes = r.nodes, !.freqMap = fm1,
                !.minFreq = IF IsEmpty(r.list) /\ freq = st.minFreq
                            THEN FindMinFreq(fm1) ELSE st.minFreq]

\* the end of #removeNodeCompletely: delete this.#cache[node.key]; size-- if size > 0
LFUTTLForget(st, p) ==
  [st EXCEPT !.cache = MapDelete(st.cache, p),
             !.size = IF st.size > 0 THEN st.size - 1 ELSE st.size]

\* #removeNodeCompletely(node)
LFUTTLRemoveNodeCompletely(st, n) ==
  LFUTTLForget(
    IF st.nodes[n].freq \in DOMAIN st.freqMap
    THEN LFUTTLAfterRemoveNode(st, st.nodes[n].freq,
                               RemoveNode(st.nodes, st.freqMap[st.nodes[n].freq], n))
    ELSE st,
    PropName(st.nodes[n].key))

\* has(key): [ret, st]
LFUTTLHas(st, key, t) ==
  IF PropName(key) \notin DOMAIN st.cache THEN [ret |-> FALSE, st |-> st]
  ELSE IF IsExpired(st.nodes[st.cache[PropName(key)]].value, t)
  THEN [ret |-> FALSE, st |-> LFUTTLRemoveNodeCompletely(st, st.cache[PropName(key)])]
  ELSE [ret |-> TRUE, st |-> st]

\* #addToFreqList after addToHead returned r on the list of fm1[freq]: [threw, st]
LFUTTLAfterAddToHead(st, fm1, freq, r) ==
  [threw |-> r.threw,
   st |-> [st EXCEPT !.nodes = r.nodes, !.freqMap = MapPut(fm1, freq, r.list)]]

\* #freqMap with a list registered under freq
WithFreqList(fm, freq) == IF freq \in DOMAIN fm THEN fm ELSE MapPut(fm, freq, EmptyList)

\* #addToFreqList(freq, node): [threw, st]
LFUTTLAddToFreqList(st, freq, n) ==
  LFUTTLAfterAddToHead(st, WithFreqList(st.freqMap, freq), freq,
                       AddToHead(st.nodes, WithFreqList(st.freqMap, freq)[freq], n))

\* #increaseFreq after freqList.removeNode(node) returned r
LFUTTLAfterDetach(st, oldFreq, r) ==
  [st EXCEPT !.nodes = r.nodes,
             !.freqMap = MapPut(st.freqMap, oldFreq, r.list),
             !.minFreq = IF IsEmpty(r.list) /\ oldFreq = st.minFreq
                         THEN st.minFreq + 1 ELSE st.minFreq]

\* the end of #increaseFreq: node.freq = oldFreq + 1; addToFreqList(node.freq, node)
LFUTTLPromote(st, n, oldFreq) ==
  LFUTTLAddToFreqList([st EXCEPT !.nodes[n].freq = oldFreq + 1], oldFreq + 1, n)

\* #increaseFreq(node): [threw, st]
LFUTTLIncreaseFreq(st, n) ==
  LFUTTLPromote(
    IF st.nodes[n].freq \in DOMAIN st.freqMap
    THEN LFUTTLAfterDetach(st, st.nodes[n].freq,
                           RemoveNode(st.nodes, st.freqMap[st.nodes[n].freq], n))
    ELSE st,
    n, st.nodes[n].freq)

\* #removeMinFreqNode after minFreqList.removeTail() returned t with a node
LFUTTLAfterRemoveTail(st, t) ==
  LET c1 == MapDelete(st.cache, PropName(t.nodes[t.node.id].key))
      fm1 == IF IsEmpty(t.list) THEN MapDelete(st.freqMap, st.minFreq)
             ELSE MapPut(st.freqMap, st.minFreq, t.list)
  IN [nodes |-> t.nodes, cache |-> c1, freqMap |-> fm1,
      minFreq |-> IF IsEmpty(t.list) THEN FindMinFreq(fm1) ELSE st.minFreq,
      size |-> IF st.size > 0 THEN st.size - 1 ELSE st.size]

\* #removeMinFreqNode()
LFUTTLRemoveMinFreqNode(st) ==
  IF st.minFreq \notin DOMAIN st.freqMap THEN st
  ELSE IF IsEmpty(st.freqMap[st.minFreq]) THEN st
  ELSE LFUTTLAfterRemoveTail(st, RemoveTail(st.nodes, st.freqMap[st.minFreq]))

\* mutant: set of a new key lowers #minFreq only when it was 0
LFUTTLAfterAddKeepsMin(a) ==
  IF a.threw THEN a
  ELSE [threw |-> FALSE,
        st |-> [a.st EXCEPT !.minFreq = IF a.st.minFreq = 0 THEN 1 ELSE a.st.minFreq,
                            !.size = a.st.size + 1]]

\* set of a new key after addToFreqList(1, node) returned a: minFreq = 1; size++
LFUTTLAfterAdd(a) ==
  IF a.threw THEN a
  ELSE [threw |-> FALSE, st |-> [a.st EXCEPT !.minFreq = 1, !.size = a.st.size + 1]]

\* set of a new key after the eviction: the node is made, mapped and added with freq 1
LFUTTLAdd(st, key, value, t) ==
  LFUTTLAfterAdd(
    LFUTTLAddToFreqList(
      [st EXCEPT !.nodes = MapPut(st.nodes, NewNodeId(st.nodes, key),
                                  LFUCacheNode(key, ValueWithTTL(value, ttl, t), 1)),
                 !.cache = MapPut(st.cache, PropName(key), NewNodeId(st.nodes, key))],
      1, NewNodeId(st.nodes, key)))

\* the insertion of a new key in set: evict when full, then add
LFUTTLInsert(st, key, value, t) ==
  LFUTTLAdd(IF st.size >= capacity THEN LFUTTLRemoveMinFreqNode(st) ELSE st, key, value, t)

\* set after this.has(key) returned h: [threw, st]
LFUTTLSetAfterHas(h, key, value, t) ==
  IF h.ret
  THEN LFUTTLIncreaseFreq(
         [h.st EXCEPT !.nodes[h.st.cache[PropName(key)]].value = ValueWithTTL(value, ttl, t)],
         h.st.cache[PropName(key)])
  ELSE LFUTTLInsert(h.st, key, value, t)

\* set(key, value): [threw, st]
LFUTTLSet(st, key, value, t) == LFUTTLSetAfterHas(LFUTTLHas(st, key, t), key, value, t)

\* get after #increaseFreq(node) returned r
LFUTTLAfterIncreaseFreq(r, n) ==
  [threw |-> r.threw, ret |-> r.st.nodes[n].value.value, st |-> r.st]

\* get after this.has(key) returned h: [threw, ret, st]
LFUTTLGetAfterHas(h, key, t) ==
  IF ~h.ret THEN [threw |-> FALSE, ret |-> "undefined", st |-> h.st]
  ELSE LFUTTLAfterIncreaseFreq(
         LFUTTLIncreaseFreq(
           [h.st EXCEPT !.nodes[h.st.cache[PropName(key)]].value =
                          ResetTTL(h.st.nodes[h.st.cache[PropName(key)]].value, t)],
           h.st.cache[PropName(key)]),
         h.st.cache[PropName(key)])

\* get(key): [threw, ret, st]
LFUTTLGet(st, key, t) == LFUTTLGetAfterHas(LFUTTLHas(st, key, t), key, t)

\* the property names of the entries of a TTL cache that are expired at time t
ExpiredAt(st, t) == {p \in DOMAIN st.cache : IsExpired(st.nodes[st.cache[p]].value, t)}

\* mutant: a sweep that removes the expired entries one by one and counts them
RECURSIVE LFUTTLSweepLoop(_, _, _)
LFUTTLSweepLoop(st, todo, count) ==
  IF todo = {} THEN [threw |-> FALSE, count |-> count, st |-> st]
  ELSE LET q == CHOOSE x \in todo : TRUE
       IN LFUTTLSweepLoop(LFUTTLRemoveNodeCompletely(st, st.cache[q]), todo \ {q}, count + 1)

LFUTTLSweep(st, t) == LFUTTLSweepLoop(st, ExpiredAt(st, t), 0)

\* cleanupExpired(): LFUCacheWithTTL declares no such method, so the call of the
\* undefined property raises a TypeError before anything runs: [threw, count, st]
LFUTTLCleanupExpired(st, t) == [threw |-> TRUE, count |-> 0, st |-> st]

\* clear()
LFUTTLClear(st) ==
  [nodes |-> st.nodes, cache |-> MapEmpty, freqMap |-> MapEmpty, minFreq |-> 0, size |-> 0]

\* delete after this.has(key) returned h: [ret, st]
LFUTTLDeleteAfterHas(h, key) ==
  IF ~h.ret THEN [ret |-> FALSE, st |-> h.st]
  ELSE [ret |-> TRUE, st |-> LFUTTLRemoveNodeCompletely(h.st, h.st.cache[PropName(key)])]

\* delete(key): [ret, st]
LFUTTLDelete(st, key, t) == LFUTTLDeleteAfterHas(LFUTTLHas(st, key, t), key)

----------------------------------------------------------------------------
(* The cache object under test and its calls *)

RecencyVariants == {"LRUCache", "LRUCacheWithTTL"}
FrequencyVariants == {"LFUCache", "LFUCacheWithTTL"}
TTLVariants == {"LRUCacheWithTTL", "LFUCacheWithTTL"}
Variants == RecencyVariants \cup FrequencyVariants

\* the state record of a recency cache / of a frequency cache
CurLRU == [nodes |-> nodes, cache |-> cache, list |-> list]
CurLFU == [nodes |-> nodes, cache |-> cache, freqMap |-> freqMap, minFreq |-> minFreq,
           size |-> lfuSize]

\* get size
Size == IF variant \in RecencyVariants THEN list.size ELSE lfuSize

\* all nodes linked into some list of the cache
LinkedNodes(ns, L, fm) ==
  SeqToSet(ListNodes(ns, L)) \cup UNION {SeqToSet(ListNodes(ns, fm[f])) : f \in DOMAIN fm}

CommitLRU(st) ==
  /\ nodes' = Collect(st.nodes, Range(st.cache) \cup LinkedNodes(st.nodes, st.list, MapEmpty))
  /\ cache' = st.cache
  /\ list' = st.list
  /\ UNCHANGED <<freqMap, minFreq, lfuSize, arrivals>>

(* History of a frequency cache, kept beside the code's state: for every      *)
(* frequency the keys whose entry was inserted at or promoted to it, latest  *)
(* first.  It is updated from what the call did (inserted, promoted, kept)   *)
(* and then restricted to the keys still in the map.                         *)

Without(g, p) == [f \in DOMAIN g |-> SelectSeq(g[f], LAMBDA q : q # p)]

PutFirst(g, f, p) ==
  [x \in DOMAIN g \cup {f} |-> IF x = f THEN <<p>> \o (IF f \in DOMAIN g THEN g[f] ELSE <<>>)
                               ELSE g[x]]

ArrivalFreq(g, p) ==
  IF \E f \in DOMAIN g : p \in SeqToSet(g[f])
  THEN CHOOSE f \in DOMAIN g : p \in SeqToSet(g[f]) ELSE 0

Arrive(g, p, how) ==
  CASE how = "insert" -> PutFirst(Without(g, p), 1, p)
    [] how = "promote" -> PutFirst(Without(g, p), ArrivalFreq(g, p) + 1, p)
    [] OTHER -> g

Kept(g, c) ==
  LET h == [f \in DOMAIN g |-> SelectSeq(g[f], LAMBDA q : q \in DOMAIN c)]
  IN [f \in {x \in DOMAIN h : h[x] # <<>>} |-> h[f]]

\* what a set or get that found the key present (or not) did to the history
How(threw, present, isSet) ==
  IF threw THEN "none" ELSE IF present THEN "promote" ELSE IF isSet THEN "insert" ELSE "none"

CommitLFU(st, p, how) ==
  /\ nodes' = Collect(st.nodes, Range(st.cache) \cup LinkedNodes(st.nodes, EmptyList, st.freqMap))
  /\ cache' = st.cache
  /\ freqMap' = st.freqMap
  /\ minFreq' = st.minFreq
  /\ lfuSize' = st.size
  /\ arrivals' = Kept(Arrive(arrivals, p, how), st.cache)
  /\ UNCHANGED list

Frame == UNCHANGED <<variant, capacity, ttl, tv, held>>

\* the counter freq is kept below MaxFreq
FreqRoom(key) ==
  PropName(key) \in DOMAIN cache => nodes[cache[PropName(key)]].freq < MaxFreq

Init ==
  /\ variant \in Variants
  /\ capacity \in 1 .. MaxCapacity
  /\ ttl = IF variant \in TTLVariants THEN TTL ELSE 0
  /\ now = 0
  /\ nodes = MapEmpty
  /\ cache = MapEmpty
  /\ list = EmptyList
  /\ freqMap = MapEmpty
  /\ minFreq = 0
  /\ lfuSize = 0
  /\ arrivals = MapEmpty
  /\ tv = ValueWithTTL("v1", 1, 0)
  /\ held = {}

\* the clock of the TTL caches advances
Tick ==
  /\ variant \in TTLVariants
  /\ now < MaxTime
  /\ now' = now + 1
  /\ UNCHANGED <<nodes, cache, list, freqMap, minFreq, lfuSize, arrivals>>
  /\ Frame

(* LRUCache *)

LRUCacheHas ==
  \E k \in Keys :
    /\ variant = "LRUCache"
    /\ LRUHas(CurLRU, k) \in BOOLEAN
    /\ UNCHANGED <<now, nodes, cache, list, freqMap, minFreq, lfuSize, arrivals>>
    /\ Frame

LRUCacheSet ==
  \E k \in Keys : \E v \in ValuesOf(k) :
    /\ variant = "LRUCache"
    /\ CommitLRU(LRUSet(CurLRU, k, v).st)
    /\ UNCHANGED now
    /\ Frame

LRUCacheGet ==
  \E k \in Keys :
    /\ variant = "LRUCache"
    /\ CommitLRU(LRUGet(CurLRU, k).st)
    /\ UNCHANGED now
    /\ Frame

LRUCacheClear ==
  /\ variant = "LRUCache"
  /\ CommitLRU(LRUClear(CurLRU))
  /\ UNCHANGED now
  /\ Frame

LRUCacheDelete ==
  \E k \in Keys :
    /\ variant = "LRUCache"
    /\ CommitLRU(LRUDelete(CurLRU, k).st)
    /\ UNCHANGED now
    /\ Frame

(* LRUCacheWithTTL *)

LRUCacheWithTTLHas ==
  \E k \in Keys :
    /\ variant = "LRUCacheWithTTL"
    /\ CommitLRU(LRUTTLHas(CurLRU, k, now).st)
    /\ UNCHANGED now
    /\ Frame

LRUCacheWithTTLSet ==
  \E k \in Keys : \E v \in ValuesOf(k) :
    /\ variant = "LRUCacheWithTTL"
    /\ CommitLRU(LRUTTLSet(CurLRU, k, v, now).st)
    /\ UNCHANGED now
    /\ Frame

LRUCacheWithTTLGet ==
  \E k \in Keys :
    /\ variant = "LRUCacheWithTTL"
    /\ CommitLRU(LRUTTLGet(CurLRU, k, now).st)
    /\ UNCHANGED now
    /\ Frame

LRUCacheWithTTLCleanupExpired ==
  /\ variant = "LRUCacheWithTTL"
  /\ CommitLRU(LRUTTLCleanupExpired(CurLRU, now).st)
  /\ UNCHANGED now
  /\ Frame

LRUCacheWithTTLClear ==
  /\ variant = "LRUCacheWithTTL"
  /\ CommitLRU(LRUTTLClear(CurLRU))
  /\ UNCHANGED now
  /\ Frame

LRUCacheWithTTLDelete ==
  \E k \in Keys :
    /\ variant = "LRUCacheWithTTL"
    /\ CommitLRU(LRUTTLDelete(CurLRU, k, now).st)
    /\ UNCHANGED now
    /\ Frame

(* LFUCache *)

LFUCacheHas ==
  \E k \in Keys :
    /\ variant = "LFUCache"
    /\ LFUHas(CurLFU, k) \in BOOLEAN
    /\ UNCHANGED <<now, nodes, cache, list, freqMap, minFreq, lfuSize, arrivals>>
    /\ Frame

LFUCacheSet ==
  \E k \in Keys : \E v \in ValuesOf(k) :
    /\ variant = "LFUCache"
    /\ FreqRoom(k)
    /\ LET r == LFUSet(CurLFU, k, v)
       IN CommitLFU(r.st, PropName(k), How(r.threw, LFUHas(CurLFU, k), TRUE))
    /\ UNCHANGED now
    /\ Frame

LFUCacheGet ==
  \E k \in Keys :
    /\ variant = "LFUCache"
    /\ FreqRoom(k)
    /\ LET r == LFUGet(CurLFU, k)
       IN CommitLFU(r.st, PropName(k), How(r.threw, LFUHas(CurLFU, k), FALSE))
    /\ UNCHANGED now
    /\ Frame

LFUCacheClear ==
  /\ variant = "LFUCache"
  /\ CommitLFU(LFUClear(CurLFU), Undefined, "none")
  /\ UNCHANGED now
  /\ Frame

LFUCacheDelete ==
  \E k \in Keys :
    /\ variant = "LFUCache"
    /\ CommitLFU(LFUDelete(CurLFU, k).st, PropName(k), "none")
    /\ UNCHANGED now
    /\ Frame

(* LFUCacheWithTTL *)

LFUCacheWithTTLHas ==
  \E k \in Keys :
    /\ variant = "LFUCacheWithTTL"
    /\ CommitLFU(LFUTTLHas(CurLFU, k, now).st, PropName(k), "none")
    /\ UNCHANGED now
    /\ Frame

LFUCacheWithTTLSet ==
  \E k \in Keys : \E v \in ValuesOf(k) :
    /\ variant = "LFUCacheWithTTL"
    /\ FreqRoom(k)
    /\ LET r == LFUTTLSet(CurLFU, k, v, now)
       IN CommitLFU(r.st, PropName(k), How(r.threw, LFUTTLHas(CurLFU, k, now).ret, TRUE))
    /\ UNCHANGED now
    /\ Frame

LFUCacheWithTTLGet ==
  \E k \in Keys :
    /\ variant = "LFUCacheWithTTL"
    /\ FreqRoom(k)
    /\ LET r == LFUTTLGet(CurLFU, k, now)
       IN CommitLFU(r.st, PropName(k), How(r.threw, LFUTTLHas(CurLFU, k, now).ret, FALSE))
    /\ UNCHANGED now
    /\ Frame

LFUCacheWithTTLCleanupExpired ==
  /\ variant = "LFUCacheWithTTL"
  /\ CommitLFU(LFUTTLCleanupExpired(CurLFU, now).st, Undefined, "none")
  /\ UNCHANGED now
  /\ Frame

LFUCacheWithTTLClear ==
  /\ variant = "LFUCacheWithTTL"
  /\ CommitLFU(LFUTTLClear(CurLFU), Undefined, "none")
  /\ UNCHANGED now
  /\ Frame

LFUCacheWithTTLDelete ==
  \E k \in Keys :
    /\ variant = "LFUCacheWithTTL"
    /\ CommitLFU(LFUTTLDelete(CurLFU, k, now).st, PropName(k), "none")
    /\ UNCHANGED now
    /\ Frame

Next ==
  \/ Tick
  \/ LRUCacheHas
  \/ LRUCacheSet
  \/ LRUCacheGet
  \/ LRUCacheClear
  \/ LRUCacheDelete
  \/ LRUCacheWithTTLHas
  \/ LRUCacheWithTTLSet
  \/ LRUCacheWithTTLGet
  \/ LRUCacheWithTTLCleanupExpired
  \/ LRUCacheWithTTLClear
  \/ LRUCacheWithTTLDelete
  \/ LFUCacheHas
  \/ LFUCacheSet
  \/ LFUCacheGet
  \/ LFUCacheClear
  \/ LFUCacheDelete
  \/ LFUCacheWithTTLHas
  \/ LFUCacheWithTTLSet
  \/ LFUCacheWithTTLGet
  \/ LFUCacheWithTTLCleanupExpired
  \/ LFUCacheWithTTLClear
  \/ LFUCacheWithTTLDelete

Spec == Init /\ [][Next]_vars

----------------------------------------------------------------------------
(* A stand-alone ValueWithTTL object (src/src/lru.ts) under a running clock *)

CacheIdle == UNCHANGED <<variant, capacity, ttl, nodes, cache, list, freqMap, minFreq,
                         lfuSize, arrivals, held>>

ValueInit ==
  /\ variant = "LRUCacheWithTTL"
  /\ capacity = 1
  /\ ttl = TTL
  /\ now = 0
  /\ nodes = MapEmpty
  /\ cache = MapEmpty
  /\ list = EmptyList
  /\ freqMap = MapEmpty
  /\ minFreq = 0
  /\ lfuSize = 0
  /\ arrivals = MapEmpty
  /\ tv \in {ValueWithTTL(v, d, 0) : v \in Values, d \in 1 .. MaxValueTTL}
  /\ held = {}

\* new ValueWithTTL(value, d): throws for d <= 0, and then no object replaces tv
ValueConstruct ==
  \E v \in Values : \E d \in 0 .. MaxValueTTL :
    /\ tv' = IF d <= 0 THEN tv ELSE ValueWithTTL(v, d, now)
    /\ UNCHANGED now
    /\ CacheIdle

ValueIsExpired ==
  /\ IsExpired(tv, now) \in BOOLEAN
  /\ UNCHANGED <<now, tv>>
  /\ CacheIdle

ValueResetTTL ==
  /\ tv' = ResetTTL(tv, now)
  /\ UNCHANGED now
  /\ CacheIdle

ValueTick ==
  /\ now < MaxClock
  /\ now' = now + 1
  /\ UNCHANGED tv
  /\ CacheIdle

ValueNext ==
  \/ ValueConstruct
  \/ ValueIsExpired
  \/ ValueResetTTL
  \/ ValueTick

ValueSpec == ValueInit /\ [][ValueNext]_vars

----------------------------------------------------------------------------
(* The constructors of the four caches (src/src/lru.ts, src/src/lfu.ts) *)

\* JavaScript values passed as capacity or ttl: the integers -1 .. MaxCtorArg, the
\* fraction 1.5, NaN, Infinity and the numeric string '1'
IntArg(i) == [t |-> "number", kind |-> "integer", n |-> i]
FractionArg == [t |-> "number", kind |-> "fraction", n |-> 1]
NaNArg == [t |-> "number", kind |-> "NaN", n |-> 0]
InfinityArg == [t |-> "number", kind |-> "Infinity", n |-> 0]
StringArg == [t |-> "string", kind |-> "integer", n |-> 1]

IntegerArgs == {IntArg(i) : i \in -1 .. MaxCtorArg}
CtorArgs == IntegerArgs \cup {FractionArg, NaNArg, InfinityArg, StringArg}

\* isInteger(val): true for a number with an integral finite value only
IsInteger(a) == a.t = "number" /\ a.kind = "integer"

Raise(message) == [threw |-> TRUE, message |-> message, capacity |-> 0, ttl |-> 0]

Constructed(c, d) == [threw |-> FALSE, message |-> "", capacity |-> c, ttl |-> d]

\* mutant: the TTL constructors validate ttl before capacity
ConstructTTLFirst(cls, a, b) ==
  IF cls \in TTLVariants /\ ~IsInteger(b) THEN Raise("cache ttl must be integer")
  ELSE IF cls \in TTLVariants /\ b.n <= 0 THEN Raise("cache ttl must be greater than 0")
  ELSE IF ~IsInteger(a) THEN Raise("cache capacity must be integer")
  ELSE IF a.n <= 0 THEN Raise("cache capacity must be greater than 0")
  ELSE Constructed(a.n, IF cls \in TTLVariants THEN b.n ELSE 0)

\* new cls(a) / new cls(a, b): [threw, message, capacity, ttl]
Construct(cls, a, b) ==
  IF ~IsInteger(a) THEN Raise("cache capacity must be integer")
  ELSE IF a.n <= 0 THEN Raise("cache capacity must be greater than 0")
  ELSE IF cls \notin TTLVariants THEN Constructed(a.n, 0)
  ELSE IF ~IsInteger(b) THEN Raise("cache ttl must be integer")
  ELSE IF b.n <= 0 THEN Raise("cache ttl must be greater than 0")
  ELSE Constructed(a.n, b.n)

\* a constructor call: when it raises no object is made and the one at hand stays,
\* else the new object replaces it, with the fields its class initialises
CacheConstruct ==
  \E cls \in Variants : \E a \in CtorArgs : \E b \in CtorArgs :
    LET r == Construct(cls, a, b) IN
    IF r.threw THEN UNCHANGED vars
    ELSE /\ variant' = cls
         /\ capacity' = r.capacity
         /\ ttl' = r.ttl
         /\ nodes' = MapEmpty
         /\ cache' = MapEmpty
         /\ list' = EmptyList
         /\ freqMap' = MapEmpty
         /\ minFreq' = 0
         /\ lfuSize' = 0
         /\ arrivals' = MapEmpty
         /\ UNCHANGED <<now, tv, held>>

CtorNext == CacheConstruct

CtorSpec == Init /\ [][CtorNext]_vars

----------------------------------------------------------------------------
(* A stand-alone DoublyLinkedList (src/src/doubly-linked-list.ts) and the    *)
(* nodes its caller holds.  The list is in list, its nodes and the caller's *)
(* unattached nodes are in nodes.  Results are [ret, nodes, list].          *)

\* an object identity for a new node of the list's caller: the smallest one not in use
NewListNode(ns) ==
  CHOOSE n \in 1 .. Cardinality(DOMAIN ns) + 1 :
    n \notin DOMAIN ns /\ \A m \in 1 .. n - 1 : m \in DOMAIN ns

\* what a walk yields when it reads a link of undefined
TypeError == [t |-> "TypeError"]

\* a call that returned ret, and a call that raised
Returned(ret, ns, L) == [ret |-> ret, threw |-> FALSE, nodes |-> ns, list |-> L]

Raised(ns, L) == [ret |-> "undefined", threw |-> TRUE, nodes |-> ns, list |-> L]

\* a call whose result is ret once the inner call r has returned
Then(r, ret) == IF r.threw THEN r ELSE [r EXCEPT !.ret = ret]

\* the for loops of #getNode: k times node = node!.next (or node!.prev)
RECURSIVE Steps(_, _, _, _)
Steps(ns, cur, dir, k) ==
  IF k <= 0 THEN cur
  ELSE IF ~IsRef(cur) THEN TypeError
  ELSE Steps(ns, IF dir = "next" THEN ns[cur.id].next ELSE ns[cur.id].prev, dir, k - 1)

\* mutant: the walk from the tail takes size - index steps, one too many
GetNodeOvershoot(ns, L, index) ==
  IF index < 0 \/ index >= L.size THEN Undefined
  ELSE IF 2 * index < L.size THEN Steps(ns, L.head, "next", index)
  ELSE Steps(ns, L.tail, "prev", L.size - index)

\* #getNode(index): from the head when index < size / 2, else from the tail
GetNode(ns, L, index) ==
  IF index < 0 \/ index >= L.size THEN Undefined
  ELSE IF 2 * index < L.size THEN Steps(ns, L.head, "next", index)
  ELSE Steps(ns, L.tail, "prev", L.size - 1 - index)

\* clear(): head, tail and size are reset, the nodes keep their links
Clear(ns, L) == Returned("undefined", ns, EmptyList)

\* push(value)
Push(ns, L, value) ==
  LET n == NewListNode(ns)
      ns1 == MapPut(ns, n, DoublyLinkedListNode(value, Undefined, Undefined))
  IN IF IsEmpty(L)
     THEN Returned("this", ns1, [head |-> Ref(n), tail |-> Ref(n), size |-> L.size + 1])
     ELSE IF ~IsRef(L.tail) THEN Raised(ns, L)
     ELSE Returned("this", [ns1 EXCEPT ![L.tail.id].next = Ref(n), ![n].prev = L.tail],
                   [head |-> L.head, tail |-> Ref(n), size |-> L.size + 1])

\* pop(): removeTail(), then the value of the node it returned
Pop(ns, L) ==
  LET t == RemoveTail(ns, L)
  IN IF t.threw THEN Raised(t.nodes, t.list)
     ELSE Returned(IF IsRef(t.node) THEN t.nodes[t.node.id].value ELSE "undefined",
                   t.nodes, t.list)

\* unshift(value): addToHead of a new node
Unshift(ns, L, value) ==
  LET n == NewListNode(ns)
      r == AddToHead(MapPut(ns, n, DoublyLinkedListNode(value, Undefined, Undefined)), L, n)
  IN IF r.threw THEN Raised(ns, L) ELSE Returned("this", r.nodes, r.list)

\* shift()
Shift(ns, L) ==
  IF IsEmpty(L) THEN Returned("undefined", ns, L)
  ELSE IF ~IsRef(L.head) THEN Raised(ns, L)
  ELSE LET oldHead == L.head.id
           head1 == ns[oldHead].next
           L1 == [head |-> head1, tail |-> L.tail, size |-> L.size - 1]
       IN IF IsEmpty(L1)
          THEN Returned(ns[oldHead].value, [ns EXCEPT ![oldHead].next = Undefined],
                        [L1 EXCEPT !.tail = Undefined])
          ELSE IF ~IsRef(head1) THEN Raised(ns, L1)
          ELSE LET ns1 == [ns EXCEPT ![head1.id].prev = Undefined]
               IN Returned(ns1[oldHead].value, [ns1 EXCEPT ![oldHead].next = Undefined], L1)

\* get(index)
Get(ns, L, index) ==
  LET node == GetNode(ns, L, index)
  IN IF node = TypeError THEN Raised(ns, L)
     ELSE Returned(IF IsRef(node) THEN ns[node.id].value ELSE "undefined", ns, L)

\* set(index, value)
Set(ns, L, index, value) ==
  LET node == GetNode(ns, L, index)
  IN IF node = TypeError THEN Raised(ns, L)
     ELSE IF ~IsRef(node) THEN Returned(FALSE, ns, L)
     ELSE Returned(TRUE, [ns EXCEPT ![node.id].value = value], L)

\* mutant: an index beyond size appends instead of being refused
InsertClamped(ns, L, index, value) ==
  IF index < 0 THEN Returned(FALSE, ns, L)
  ELSE IF index >= L.size THEN Then(Push(ns, L, value), TRUE)
  ELSE IF index = 0 THEN Then(Unshift(ns, L, value), TRUE)
  ELSE Returned(FALSE, ns, L)

\* insert(index, value); the node made for a position that is then refused is dropped
Insert(ns, L, index, value) ==
  IF index < 0 \/ index > L.size THEN Returned(FALSE, ns, L)
  ELSE IF index = L.size THEN Then(Push(ns, L, value), TRUE)
  ELSE IF index = 0 THEN Then(Unshift(ns, L, value), TRUE)
  ELSE LET prev == GetNode(ns, L, index - 1) IN
       IF prev = TypeError THEN Raised(ns, L)
       ELSE IF ~IsRef(prev) THEN Returned(FALSE, ns, L)
       ELSE IF ~IsRef(ns[prev.id].next) THEN Returned(FALSE, ns, L)
       ELSE LET n == NewListNode(ns)
                next == ns[prev.id].next
                ns1 == MapPut(ns, n, DoublyLinkedListNode(value, prev, next))
                ns2 == [ns1 EXCEPT ![next.id].prev = Ref(n)]
            IN Returned(TRUE, [ns2 EXCEPT ![prev.id].next = Ref(n)],
                        [L EXCEPT !.size = L.size + 1])

\* mutant: the node at index - 1 is unlinked instead of the one after it
RemoveShifted(ns, L, index) ==
  IF index < 0 \/ index >= L.size THEN Returned(FALSE, ns, L)
  ELSE IF index = 0 THEN Then(Shift(ns, L), TRUE)
  ELSE IF index = L.size - 1 THEN Then(Pop(ns, L), TRUE)
  ELSE LET prev == GetNode(ns, L, index - 2) IN
       IF ~IsRef(prev) THEN Then(Shift(ns, L), TRUE)
       ELSE LET removeTarget == ns[prev.id].next
                next == ns[removeTarget.id].next
                ns1 == [ns EXCEPT ![prev.id].next = next]
                ns2 == [ns1 EXCEPT ![next.id].prev = prev]
            IN Returned(TRUE, [ns2 EXCEPT ![removeTarget.id].prev = Undefined,
                                          ![removeTarget.id].next = Undefined],
                        [L EXCEPT !.size = L.size - 1])

\* remove(index)
Remove(ns, L, index) ==
  IF index < 0 \/ index >= L.size THEN Returned(FALSE, ns, L)
  ELSE IF index = 0 THEN Then(Shift(ns, L), TRUE)
  ELSE IF index = L.size - 1 THEN Then(Pop(ns, L), TRUE)
  ELSE LET prev == GetNode(ns, L, index - 1) IN
       IF ~IsRef(prev) THEN Raised(ns, L)
       ELSE IF ~IsRef(ns[prev.id].next) THEN Raised(ns, L)
       ELSE LET removeTarget == ns[prev.id].next
                next == ns[removeTarget.id].next
                ns1 == [ns EXCEPT ![prev.id].next = next]
            IN IF ~IsRef(next) THEN Raised(ns1, L)
               ELSE LET ns2 == [ns1 EXCEPT ![next.id].prev = prev]
                    IN Returned(TRUE, [ns2 EXCEPT ![removeTarget.id].prev = Undefined,
                                                  ![removeTarget.id].next = Undefined],
                                [L EXCEPT !.size = L.size - 1])

\* the loop of #isNodeInList ends: it meets node or the end of the chain (it never ends
\* on a cycle that does not hold node)
RECURSIVE WalkEnds(_, _, _, _)
WalkEnds(ns, cur, n, fuel) ==
  IF ~IsRef(cur) THEN TRUE
  ELSE IF cur.id = n THEN TRUE
  ELSE IF fuel = 0 THEN FALSE
  ELSE WalkEnds(ns, ns[cur.id].next, n, fuel - 1)

\* front() and back()
FrontValue(ns, L) == IF IsRef(L.head) THEN ns[L.head.id].value ELSE "undefined"

BackValue(ns, L) == IF IsRef(L.tail) THEN ns[L.tail.id].value ELSE "undefined"

\* the while loop of reverse(): [nodes, ends]; ends is FALSE when the loop is still
\* running after fuel rounds
RECURSIVE ReverseLoop(_, _, _, _)
ReverseLoop(ns, prev, current, fuel) ==
  IF ~IsRef(current) THEN [nodes |-> ns, ends |-> TRUE]
  ELSE IF fuel = 0 THEN [nodes |-> ns, ends |-> FALSE]
  ELSE ReverseLoop([ns EXCEPT ![current.id].next = prev, ![current.id].prev = ns[current.id].next],
                   current, ns[current.id].next, fuel - 1)

\* as many rounds as a loop over the heap ns can take before it repeats itself
Rounds(ns) == 2 * Cardinality(DOMAIN ns) + 1

\* mutant: the links are turned but #head and #tail are not exchanged
ReverseLinksOnly(ns, L) ==
  IF L.size <= 1 THEN Returned("this", ns, L)
  ELSE Returned("this", ReverseLoop(ns, Undefined, L.head, Rounds(ns)).nodes, L)

\* reverse()
Reverse(ns, L) ==
  IF L.size <= 1 THEN Returned("this", ns, L)
  ELSE Returned("this", ReverseLoop(ns, Undefined, L.head, Rounds(ns)).nodes,
                [L EXCEPT !.head = L.tail, !.tail = L.head])

\* the values [Symbol.iterator] yields from cur on, as far as fuel reaches
RECURSIVE Yields(_, _, _)
Yields(ns, cur, fuel) ==
  IF ~IsRef(cur) \/ fuel = 0 THEN <<>>
  ELSE <<ns[cur.id].value>> \o Yields(ns, ns[cur.id].next, fuel - 1)

\* [Symbol.iterator]() run to its end: [values, ends]; ends is FALSE when the generator
\* never finishes (the next links come back to a node already met)
Iterate(ns, L) ==
  [values |-> Yields(ns, L.head, Rounds(ns)),
   ends |-> Len(Yields(ns, L.head, Rounds(ns))) < Rounds(ns)]

\* mutant: drain() takes its values from the tail
DrainNextFromTail(ns, L) ==
  IF ~IsRef(L.head) THEN [Returned("undefined", ns, L) EXCEPT !.ret = "done"] ELSE Pop(ns, L)

\* one value of drain(): done when #head is undefined, else the value shift() returns
DrainNext(ns, L) ==
  IF ~IsRef(L.head) THEN [Returned("undefined", ns, L) EXCEPT !.ret = "done"] ELSE Shift(ns, L)

\* drain() run to its end: [values, threw, ends, nodes, list]
RECURSIVE DrainLoop(_, _, _, _)
DrainLoop(ns, L, out, fuel) ==
  LET r == DrainNext(ns, L)
  IN IF r.threw
     THEN [values |-> out, threw |-> TRUE, ends |-> TRUE, nodes |-> r.nodes, list |-> r.list]
     ELSE IF r.ret = "done"
     THEN [values |-> out, threw |-> FALSE, ends |-> TRUE, nodes |-> ns, list |-> L]
     ELSE IF fuel = 0
     THEN [values |-> out, threw |-> FALSE, ends |-> FALSE, nodes |-> ns, list |-> L]
     ELSE DrainLoop(r.nodes, r.list, Append(out, r.ret), fuel - 1)

Drain(ns, L) == DrainLoop(ns, L, <<>>, Rounds(ns) + L.size)

\* the indices the calls pass: one below 0 up to one above size
Indices == -1 .. list.size + 1

\* room in the heap for one more node
NodeRoom == Cardinality(DOMAIN nodes) < MaxNodes

\* the size counter may still grow
SizeRoom == list.size < MaxSize

CachesIdle == UNCHANGED <<variant, capacity, ttl, now, cache, freqMap, minFreq, lfuSize,
                          arrivals, tv>>

ListInit ==
  /\ variant = "DoublyLinkedList"
  /\ capacity = 1
  /\ ttl = 0
  /\ now = 0
  /\ nodes = MapEmpty
  /\ cache = MapEmpty
  /\ list = EmptyList
  /\ freqMap = MapEmpty
  /\ minFreq = 0
  /\ lfuSize = 0
  /\ arrivals = MapEmpty
  /\ tv = ValueWithTTL("v1", 1, 0)
  /\ held = {}

\* the nodes the caller can name: those it holds and those their links lead to
Handles == Reachable(nodes, held)

\* the caller keeps one reference at a time
HeldRoom == held = {}

\* the ids of a set, smallest first
RECURSIVE Sorted(_)
Sorted(S) ==
  IF S = {} THEN <<>>
  ELSE LET m == CHOOSE x \in S : \A y \in S : x <= y IN <<m>> \o Sorted(S \ {m})

\* the links of node n that lead to a node, next before prev
Links(ns, n) ==
  (IF IsRef(ns[n].next) THEN <<ns[n].next.id>> ELSE <<>>)
    \o (IF IsRef(ns[n].prev) THEN <<ns[n].prev.id>> ELSE <<>>)

\* the nodes met from todo, each once, in the order a depth-first walk meets them
RECURSIVE Visit(_, _, _)
Visit(ns, todo, acc) ==
  IF todo = <<>> THEN acc
  ELSE IF Head(todo) \in SeqToSet(acc) \/ Head(todo) \notin DOMAIN ns
  THEN Visit(ns, Tail(todo), acc)
  ELSE Visit(ns, Links(ns, Head(todo)) \o Tail(todo), Append(acc, Head(todo)))

\* the nodes the list or the caller reaches: from head, then tail, then the held nodes
WalkOrder(ns, L, h) ==
  Visit(ns, (IF IsRef(L.head) THEN <<L.head.id>> ELSE <<>>)
              \o (IF IsRef(L.tail) THEN <<L.tail.id>> ELSE <<>>) \o Sorted(h), <<>>)

\* the place of node n in the walk
Place(order, n) == CHOOSE i \in 1 .. Len(order) : order[i] = n

Renamed(order, x) == IF IsRef(x) THEN Ref(Place(order, x.id)) ELSE x

\* node ids name objects and nothing reads them: the heap is kept with the nodes numbered
\* in the order of the walk, and the nodes that nothing reaches are collected
ListHeap(ns, order) ==
  [i \in 1 .. Len(order) |->
    [ns[order[i]] EXCEPT !.prev = Renamed(order, @), !.next = Renamed(order, @)]]

\* the state a list call leaves when the caller holds h afterwards
ListCommit(r, h) ==
  \E res \in {r} : \E order \in {WalkOrder(res.nodes, res.list, h)} :
    /\ nodes' = ListHeap(res.nodes, order)
    /\ list' = [res.list EXCEPT !.head = Renamed(order, @), !.tail = Renamed(order, @)]
    /\ held' = {Place(order, n) : n \in h}
    /\ CachesIdle

\* a call that did nothing
Idle == [nodes |-> nodes, list |-> list]

ListClear == variant = "DoublyLinkedList" /\ ListCommit(Clear(nodes, list), held)

ListPush ==
  \E v \in Values :
    variant = "DoublyLinkedList" /\ NodeRoom /\ SizeRoom /\ ListCommit(Push(nodes, list, v), held)

ListPop == variant = "DoublyLinkedList" /\ ListCommit(Pop(nodes, list), held)

ListUnshift ==
  \E v \in Values :
    variant = "DoublyLinkedList" /\ NodeRoom /\ SizeRoom
      /\ ListCommit(Unshift(nodes, list, v), held)

ListShift == variant = "DoublyLinkedList" /\ ListCommit(Shift(nodes, list), held)

ListGet ==
  \E i \in Indices : variant = "DoublyLinkedList" /\ ListCommit(Get(nodes, list, i), held)

ListSet ==
  \E i \in Indices : \E v \in Values :
    variant = "DoublyLinkedList" /\ ListCommit(Set(nodes, list, i, v), held)

ListInsert ==
  \E i \in Indices : \E v \in Values :
    variant = "DoublyLinkedList" /\ NodeRoom /\ SizeRoom
      /\ ListCommit(Insert(nodes, list, i, v), held)

ListRemove ==
  \E i \in Indices : variant = "DoublyLinkedList" /\ ListCommit(Remove(nodes, list, i), held)

ListFront == variant = "DoublyLinkedList" /\ FrontValue(nodes, list) = FrontValue(nodes, list) /\ ListCommit(Idle, held)

ListBack == variant = "DoublyLinkedList" /\ BackValue(nodes, list) = BackValue(nodes, list) /\ ListCommit(Idle, held)

\* reverse() returns when its loop ends
ListReverse ==
  /\ variant = "DoublyLinkedList"
  /\ list.size <= 1 \/ ReverseLoop(nodes, Undefined, list.head, Rounds(nodes)).ends
  /\ ListCommit(Reverse(nodes, list), held)

\* a for...of over the list that runs to its end
ListIterate == variant = "DoublyLinkedList" /\ Iterate(nodes, list).ends /\ ListCommit(Idle, held)

\* the consumer of drain() takes one more value
ListDrain == variant = "DoublyLinkedList" /\ ListCommit(DrainNext(nodes, list), held)

\* removeTail(); the caller keeps the node it returns, or drops it
ListRemoveTail ==
  /\ variant = "DoublyLinkedList"
  /\ LET t == RemoveTail(nodes, list)
     IN \/ ListCommit(t, held)
        \/ IsRef(t.node) /\ HeldRoom /\ ListCommit(t, held \cup {t.node.id})

\* the caller makes a node: new DoublyLinkedListNode(v)
ListNewNode ==
  \E v \in Values :
    /\ variant = "DoublyLinkedList"
    /\ NodeRoom
    /\ HeldRoom
    /\ ListCommit([nodes |-> MapPut(nodes, NewListNode(nodes),
                                    DoublyLinkedListNode(v, Undefined, Undefined)),
                   list |-> list], held \cup {NewListNode(nodes)})

\* addToHead(node) of a node the caller can name
ListAddToHead ==
  \E n \in Handles :
    variant = "DoublyLinkedList" /\ SizeRoom /\ ListCommit(AddToHead(nodes, list, n), held)

\* removeNode(node) returns when the walk of #isNodeInList ends
ListRemoveNode ==
  \E n \in Handles :
    /\ variant = "DoublyLinkedList"
    /\ IsEmpty(list) \/ WalkEnds(nodes, list.head, n, Fuel)
    /\ ListCommit(RemoveNode(nodes, list, n), held)

\* the caller lets go of a node
ListForget ==
  \E n \in held : variant = "DoublyLinkedList" /\ ListCommit(Idle, held \ {n})

ListNext ==
  \/ ListClear
  \/ ListPush
  \/ ListPop
  \/ ListUnshift
  \/ ListShift
  \/ ListGet
  \/ ListSet
  \/ ListInsert
  \/ ListRemove
  \/ ListRemoveTail
  \/ ListNewNode
  \/ ListAddToHead
  \/ ListRemoveNode
  \/ ListForget

ListSpec == ListInit /\ [][ListNext]_vars

\* The list used as a sequence through its index operations alone, up to MaxLen elements
LenRoom == list.size < MaxLen

IndexPush ==
  \E v \in Values : variant = "DoublyLinkedList" /\ LenRoom /\ ListCommit(Push(nodes, list, v), held)

IndexUnshift ==
  \E v \in Values :
    variant = "DoublyLinkedList" /\ LenRoom /\ ListCommit(Unshift(nodes, list, v), held)

IndexInsert ==
  \E i \in Indices : \E v \in Values :
    variant = "DoublyLinkedList" /\ LenRoom /\ ListCommit(Insert(nodes, list, i, v), held)

IndexNext ==
  \/ IndexPush
  \/ IndexUnshift
  \/ IndexInsert
  \/ ListPop
  \/ ListShift
  \/ ListRemove
  \/ ListGet
  \/ ListSet
  \/ ListClear
  \/ ListFront
  \/ ListBack
  \/ ListReverse
  \/ ListIterate
  \/ ListDrain

IndexSpec == ListInit /\ [][IndexNext]_vars

\* addToHead(node) of a node the caller can name that is not an element of the list
ListAddUnattached ==
  \E n \in Handles \ SeqToSet(ListNodes(nodes, list)) :
    variant = "DoublyLinkedList" /\ SizeRoom /\ ListCommit(AddToHead(nodes, list, n), held)

\* the index operations and the handle operations, addToHead called with unattached
\* nodes only
HandleNext ==
  \/ ListClear
  \/ ListPush
  \/ ListPop
  \/ ListUnshift
  \/ ListShift
  \/ ListSet
  \/ ListInsert
  \/ ListRemove
  \/ ListReverse
  \/ ListDrain
  \/ ListRemoveTail
  \/ ListNewNode
  \/ ListAddUnattached
  \/ ListRemoveNode
  \/ ListForget

HandleSpec == ListInit /\ [][HandleNext]_vars

\* a cache of any variant or a stand-alone list
AllSpec == (Init \/ ListInit) /\ [][Next \/ ListNext]_vars

----------------------------------------------------------------------------
(* Properties *)

\* C1: in every reachable state of each of the four cache variants the size
\* getter reports a number between 0 and the capacity.
C1_SizeWithinCapacity == 0 <= Size /\ Size <= capacity

\* a full frequency cache with a promoted entry, about to evict on the next new key
C1_Witness ==
  /\ variant = "LFUCacheWithTTL"
  /\ capacity = MaxCapacity
  /\ lfuSize = capacity
  /\ \E k \in Keys : PropName(k) \notin DOMAIN cache
  /\ \E n \in DOMAIN nodes : nodes[n].freq > 1

\* C10: a ValueWithTTL made or reset at the current time expires exactly ttl
\* later, a reset keeps the ttl, isExpired() is true exactly from the expiry
\* on (false one tick before it, true at it), and resetting an expired value
\* makes it non-expired.
C10_ValueWithTTLExpiry ==
  /\ \A v \in Values : \A d \in 1 .. MaxValueTTL :
       /\ ValueWithTTL(v, d, now).expiry = now + d
       /\ ValueWithTTL(v, d, now).ttl = d
  /\ ResetTTL(tv, now).expiry = now + tv.ttl
  /\ ResetTTL(tv, now).ttl = tv.ttl
  /\ IsExpired(tv, now) <=> now >= tv.expiry
  /\ ~IsExpired(tv, tv.expiry - 1)
  /\ IsExpired(tv, tv.expiry)
  /\ IsExpired(tv, now) => ~IsExpired(ResetTTL(tv, now), now)

\* a value made after time 0 whose expiry is reached exactly now
C10_Witness ==
  /\ now = tv.expiry
  /\ tv.expiry > tv.ttl
  /\ IsExpired(tv, now)

\* the keys (property names) of the nodes linked into the list or the buckets
LinkedKeys == {PropName(nodes[n].key) : n \in LinkedNodes(nodes, list, freqMap)}

\* C2: in every reachable state of every cache variant the property names of
\* the key->node map are exactly the keys of the nodes linked into the list
\* (recency caches) or into the frequency buckets (frequency caches).
C2_MapKeysEqualListKeys == DOMAIN cache = LinkedKeys

\* the node ids of a recency cache's list from head to tail
Order(st) == ListNodes(st.nodes, st.list)

Drop(s, x) == SelectSeq(s, LAMBDA y : y # x)

Front(s) == SubSeq(s, 1, Len(s) - 1)

\* C3: in LRUCache the list holds exactly the cached entries, and each call
\* keeps it in recency order: set and get of k return normally and put k's
\* node at the head without reordering the others, delete takes k's node
\* out, and set of a new key at full capacity drops exactly the tail, the
\* entry whose last get or set is the oldest.
C3_LRURecencyOrder ==
  variant = "LRUCache" =>
    /\ SeqToSet(Order(CurLRU)) = Range(cache)
    /\ \A k \in Keys : \A v \in Values :
         LET r == LRUSet(CurLRU, k, v)
             n == r.st.cache[PropName(k)]
         IN /\ ~r.threw
            /\ Order(r.st) =
                 IF LRUHas(CurLRU, k) THEN <<n>> \o Drop(Order(CurLRU), n)
                 ELSE IF list.size >= capacity THEN <<n>> \o Front(Order(CurLRU))
                 ELSE <<n>> \o Order(CurLRU)
    /\ \A k \in Keys :
         LRUHas(CurLRU, k) =>
           LET n == cache[PropName(k)]
               g == LRUGet(CurLRU, k)
               d == LRUDelete(CurLRU, k)
           IN /\ ~g.threw
              /\ Order(g.st) = <<n>> \o Drop(Order(CurLRU), n)
              /\ Order(d.st) = Drop(Order(CurLRU), n)

\* the keys has() reports present in a recency cache
Present(st) == {k \in Keys : LRUHas(st, k)}

\* the last m elements of a sequence, as a set
LastOf(s, m) == {s[i] : i \in {j \in 1 .. Len(s) : j > Len(s) - m}}

\* C4: in a fresh LRUCache, set of three distinct keys k1, k2, k3 with
\* capacity below three leaves exactly the `capacity` most recently inserted
\* keys, and after each insertion the survivors are the latest `capacity`
\* keys inserted so far (evictions oldest first, one per insertion beyond
\* the capacity).
C4_LRUKeepsLatestInsertions ==
  (variant = "LRUCache" /\ DOMAIN cache = {} /\ list.size = 0 /\ capacity < 3) =>
    \A k1 \in Keys : \A k2 \in Keys \ {k1} : \A k3 \in Keys \ {k1, k2} :
      LET s1 == LRUSet(CurLRU, k1, "v1").st
          s2 == LRUSet(s1, k2, "v1").st
          s3 == LRUSet(s2, k3, "v1").st
      IN /\ Present(s1) = LastOf(<<k1>>, capacity)
         /\ Present(s2) = LastOf(<<k1, k2>>, capacity)
         /\ Present(s3) = LastOf(<<k1, k2, k3>>, capacity)

\* keys beyond those the calls of the model use, for the new keys of C5
MoreKeys == Keys \cup {KA}

\* set of the keys of a sequence, one after the other
RECURSIVE LRUSetAll(_, _)
LRUSetAll(st, ks) ==
  IF ks = <<>> THEN st ELSE LRUSetAll(LRUSet(st, Head(ks), "v1").st, Tail(ks))

\* sequences of `capacity` distinct keys that are not cached
NewKeySeqs ==
  {ks \in [1 .. capacity -> {k \in MoreKeys : PropName(k) \notin DOMAIN cache}] :
     \A i, j \in 1 .. capacity : i # j => ks[i] # ks[j]}

\* C5: when an LRUCache holds `capacity` keys, get(k) of a present key and
\* then set of `capacity` new distinct keys leaves has(k) true and has(j)
\* false for every other key j that was present.
C5_LRUGetProtects ==
  (variant = "LRUCache" /\ Cardinality(DOMAIN cache) = capacity) =>
    \A k \in Present(CurLRU) : \A ks \in NewKeySeqs :
      LET s == LRUSetAll(LRUGet(CurLRU, k).st, ks)
      IN /\ LRUHas(s, k)
         /\ \A j \in Present(CurLRU) \ {k} : ~LRUHas(s, j)

\* C6: LRUCache.set(k, v) of a present key returns normally, stores v, puts
\* k at the head of the list, keeps the set of keys and the size, and leaves
\* every other entry's value as it was.
C6_LRUSetExisting ==
  variant = "LRUCache" =>
    \A k \in Keys : \A v \in Values :
      LRUHas(CurLRU, k) =>
        LET n == cache[PropName(k)]
            r == LRUSet(CurLRU, k, v)
        IN /\ ~r.threw
           /\ r.st.nodes[n].value = v
           /\ r.st.list.head = Ref(n)
           /\ DOMAIN r.st.cache = DOMAIN cache
           /\ r.st.list.size = list.size
           /\ \A p \in DOMAIN cache \ {PropName(k)} :
                r.st.nodes[r.st.cache[p]].value = nodes[cache[p]].value

\* the call of set on the frequency cache under test: [threw, st]
FreqSet(k, v) ==
  IF variant = "LFUCache" THEN LFUSet(CurLFU, k, v) ELSE LFUTTLSet(CurLFU, k, v, now)

\* no cached entry of a TTL cache has reached its expiry
NoneExpired ==
  variant \in TTLVariants => \A p \in DOMAIN cache : nodes[cache[p]].value.expiry > now

\* the entry the policy names: among the keys of the lowest frequency any
\* cached key has reached, the one that reached it the longest ago
PolicyVictim ==
  LET f == SetMin(DOMAIN arrivals) IN arrivals[f][Len(arrivals[f])]

\* C7: in both frequency caches with no expired entry, set of a new key at
\* size >= capacity returns normally and removes exactly one entry before the
\* insertion: the one of minimal frequency that was inserted into or promoted
\* to that frequency the longest ago.
C7_LFUEvictsLeastFrequentOldest ==
  (variant \in FrequencyVariants /\ lfuSize >= capacity /\ NoneExpired) =>
    \A k \in Keys : \A v \in Values :
      PropName(k) \notin DOMAIN cache =>
        LET r == FreqSet(k, v)
        IN /\ ~r.threw
           /\ DOMAIN r.st.cache = (DOMAIN cache \ {PolicyVictim}) \cup {PropName(k)}
           /\ r.st.size = lfuSize

\* capacity 2 after set(''); set(b); get(''): the next new key evicts b
C7_Witness ==
  /\ variant \in FrequencyVariants
  /\ capacity = 2
  /\ lfuSize = 2
  /\ NoneExpired
  /\ DOMAIN arrivals = {1, 2}
  /\ arrivals[2] = <<PropName(KEmpty)>>
  /\ PolicyVictim # PropName(KEmpty)
  /\ \E k \in Keys : /\ PropName(k) \notin DOMAIN cache
                     /\ PolicyVictim \notin DOMAIN FreqSet(k, "v1").st.cache
                     /\ LFUHas(FreqSet(k, "v1").st, KEmpty)

\* the calls of has and get on the TTL cache under test, and the size they leave
TTLHas(k) ==
  IF variant = "LRUCacheWithTTL" THEN LRUTTLHas(CurLRU, k, now) ELSE LFUTTLHas(CurLFU, k, now)

TTLGet(k) ==
  IF variant = "LRUCacheWithTTL" THEN LRUTTLGet(CurLRU, k, now) ELSE LFUTTLGet(CurLFU, k, now)

TTLGetAt(st, k, t) ==
  IF variant = "LRUCacheWithTTL" THEN LRUTTLGet(st, k, t) ELSE LFUTTLGet(st, k, t)

SizeOf(st) == IF variant = "LRUCacheWithTTL" THEN st.list.size ELSE st.size

LinkedIn(st) ==
  IF variant = "LRUCacheWithTTL" THEN LinkedNodes(st.nodes, st.list, MapEmpty)
  ELSE LinkedNodes(st.nodes, EmptyList, st.freqMap)

\* C8: in both TTL caches, for a cached key k whose entry has expiry e: at
\* now >= e has(k) returns false and get(k) returns undefined, and either
\* call takes the entry out of the map and of the list and lowers size by
\* exactly one; at now < e has(k) returns true and get(k) returns normally
\* with the stored value.
C8_TTLLazyExpiry ==
  variant \in TTLVariants =>
    \A k \in Keys :
      PropName(k) \in DOMAIN cache =>
        LET n == cache[PropName(k)]
            h == TTLHas(k)
            g == TTLGet(k)
        IN IF now >= nodes[n].value.expiry
           THEN /\ ~h.ret
                /\ PropName(k) \notin DOMAIN h.st.cache
                /\ n \notin LinkedIn(h.st)
                /\ SizeOf(h.st) = Size - 1
                /\ ~g.threw
                /\ g.ret = "undefined"
                /\ PropName(k) \notin DOMAIN g.st.cache
                /\ n \notin LinkedIn(g.st)
                /\ SizeOf(g.st) = Size - 1
           ELSE /\ h.ret
                /\ ~g.threw
                /\ g.ret = nodes[n].value.value

\* C9: in both TTL caches a get(k) that hits a non-expired entry at time t
\* returns normally with the value and leaves the entry's expiry at t + ttl,
\* and a further get(k) at any time from t up to t + ttl - 1 hits again.
C9_TTLGetResetsExpiry ==
  variant \in TTLVariants =>
    \A k \in Keys :
      (PropName(k) \in DOMAIN cache /\ nodes[cache[PropName(k)]].value.expiry > now) =>
        LET n == cache[PropName(k)]
            g == TTLGet(k)
        IN /\ ~g.threw
           /\ g.ret = nodes[n].value.value
           /\ g.st.nodes[n].value.expiry = now + ttl
           /\ \A t2 \in now .. (now + ttl - 1) :
                LET g2 == TTLGetAt(g.st, k, t2)
                IN ~g2.threw /\ g2.ret = nodes[n].value.value

\* C11: LRUCacheWithTTL.cleanupExpired() at the current time removes every
\* entry whose expiry has been reached, whatever the kind of its key, returns
\* their number, which is also the decrease of size, and leaves every other
\* entry with its value, expiry and place in the recency order.
C11_CleanupExpiredSweepsAll ==
  variant = "LRUCacheWithTTL" =>
    LET r == LRUTTLCleanupExpired(CurLRU, now)
        gone == ExpiredAt(CurLRU, now)
    IN /\ DOMAIN r.st.cache = DOMAIN cache \ gone
       /\ r.count = Cardinality(gone)
       /\ r.count = list.size - r.st.list.size
       /\ \A p \in DOMAIN cache \ gone :
            /\ r.st.cache[p] = cache[p]
            /\ r.st.nodes[cache[p]].value = nodes[cache[p]].value
       /\ Order(r.st) = SelectSeq(Order(CurLRU), LAMBDA n : \A p \in gone : cache[p] # n)

C13_LRUTTLSetExisting ==
  variant = "LRUCacheWithTTL" =>
    \A k \in Keys : \A v \in Values :
      PropName(k) \in DOMAIN cache =>
        LET r == LRUTTLSet(CurLRU, k, v, now)
            n == r.st.cache[PropName(k)]
        IN /\ ~r.threw
           /\ PropName(k) \in DOMAIN r.st.cache
           /\ r.st.nodes[n].value = ValueWithTTL(v, ttl, now)
           /\ r.st.list.head = Ref(n)
           /\ r.st.list.size = list.size
           /\ DOMAIN r.st.cache = DOMAIN cache

\* delete(k) of LRUCache as claimed
DeleteLRUAsClaimed(k) ==
  LET d == LRUDelete(CurLRU, k) IN
  /\ d.ret = LRUHas(CurLRU, k)
  /\ IF LRUHas(CurLRU, k)
     THEN /\ ~LRUHas(d.st, k)
          /\ LRUGet(d.st, k).ret = "undefined"
          /\ d.st.list.size = list.size - 1
          /\ \A p \in DOMAIN cache \ {PropName(k)} :
               /\ p \in DOMAIN d.st.cache
               /\ d.st.nodes[d.st.cache[p]].value = nodes[cache[p]].value
          /\ Order(d.st) = Drop(Order(CurLRU), cache[PropName(k)])
     ELSE d.st = CurLRU

\* the node ids of the bucket of frequency f from head to tail (none when unregistered)
Bucket(st, f) == IF f \in DOMAIN st.freqMap THEN ListNodes(st.nodes, st.freqMap[f]) ELSE <<>>

\* delete(k) of LFUCache as claimed
DeleteLFUAsClaimed(k) ==
  LET d == LFUDelete(CurLFU, k) IN
  /\ ~d.threw
  /\ d.ret = LFUHas(CurLFU, k)
  /\ IF LFUHas(CurLFU, k)
     THEN /\ ~LFUHas(d.st, k)
          /\ LFUGet(d.st, k).ret = "undefined"
          /\ d.st.size = lfuSize - 1
          /\ \A p \in DOMAIN cache \ {PropName(k)} :
               /\ p \in DOMAIN d.st.cache
               /\ d.st.nodes[d.st.cache[p]].value = nodes[cache[p]].value
               /\ d.st.nodes[d.st.cache[p]].freq = nodes[cache[p]].freq
          /\ \A f \in DOMAIN freqMap :
               Bucket(d.st, f) = Drop(Bucket(CurLFU, f), cache[PropName(k)])
     ELSE d.st = CurLFU

\* C14: in LRUCache and LFUCache delete(k) returns true exactly when k is
\* present; then k is gone from has and get, size is one less and the other
\* entries keep their values and their order; otherwise nothing changes.
C14_DeleteRemovesExactlyKey ==
  /\ variant = "LRUCache" => \A k \in Keys : DeleteLRUAsClaimed(k)
  /\ variant = "LFUCache" => \A k \in Keys : DeleteLFUAsClaimed(k)

\* the state record of the cache under test, and set, get and size on a state record
Cur == IF variant \in RecencyVariants THEN CurLRU ELSE CurLFU

SetOn(st, k, v) ==
  CASE variant = "LRUCache" -> LRUSet(st, k, v)
    [] variant = "LRUCacheWithTTL" -> LRUTTLSet(st, k, v, now)
    [] variant = "LFUCache" -> LFUSet(st, k, v)
    [] OTHER -> LFUTTLSet(st, k, v, now)

GetOn(st, k) ==
  CASE variant = "LRUCache" -> LRUGet(st, k)
    [] variant = "LRUCacheWithTTL" -> LRUTTLGet(st, k, now)
    [] variant = "LFUCache" -> LFUGet(st, k)
    [] OTHER -> LFUTTLGet(st, k, now)

SizeIn(st) == IF variant \in RecencyVariants THEN st.list.size ELSE st.size

\* the plain value stored under property p (inside its envelope in the TTL caches)
StoredValue(st, p) ==
  IF variant \in TTLVariants THEN st.nodes[st.cache[p]].value.value
  ELSE st.nodes[st.cache[p]].value

\* the entries get can still return now: cached and, in the TTL caches, not expired
Live(st) ==
  IF variant \in TTLVariants THEN DOMAIN st.cache \ ExpiredAt(st, now) ELSE DOMAIN st.cache

\* C15: in every variant set(k, v) returns normally and get(k) right after it
\* returns v; get(k) of a live entry returns normally with the stored value;
\* and a set or get of another key leaves the value of k as it was whenever k
\* is still cached afterwards.
C15_SetGetRoundTrip ==
  \A k \in Keys :
    /\ \A v \in Values :
         LET r == SetOn(Cur, k, v)
             g == GetOn(r.st, k)
         IN ~r.threw /\ ~g.threw /\ g.ret = v
    /\ PropName(k) \in Live(Cur) =>
         LET g == GetOn(Cur, k)
         IN /\ ~g.threw
            /\ g.ret = StoredValue(Cur, PropName(k))
            /\ \A j \in Keys \ {k} :
                 LET r == SetOn(Cur, j, "v2")
                     h == GetOn(Cur, j)
                 IN /\ PropName(k) \in DOMAIN r.st.cache =>
                         StoredValue(r.st, PropName(k)) = StoredValue(Cur, PropName(k))
                    /\ PropName(k) \in DOMAIN h.st.cache
                    /\ StoredValue(h.st, PropName(k)) = StoredValue(Cur, PropName(k))

\* keys of every kind, among them pairs that are distinct but convert to one property
IdentityKeys == {KZero, KStrZero, KEmpty, KSym, KObjA, KObjB}

\* C16: on a fresh cache of capacity >= 2, set(k1, v1); set(k2, v2) of two
\* distinct keys of any kind leaves size 2, get(k1) = v1 and get(k2) = v2.
C16_DistinctKeysDoNotAlias ==
  (DOMAIN cache = {} /\ Size = 0 /\ capacity >= 2) =>
    \A k1 \in IdentityKeys : \A k2 \in IdentityKeys \ {k1} :
      LET s1 == SetOn(Cur, k1, "v1").st
          s2 == SetOn(s1, k2, "v2").st
          g1 == GetOn(s2, k1)
          g2 == GetOn(g1.st, k2)
      IN /\ SizeIn(s2) = 2
         /\ g1.ret = "v1"
         /\ g2.ret = "v2"

\* the outcome the documentation gives for new cls(a, b)
CtorAsClaimed(cls, a, b) ==
  IF a \notin IntegerArgs THEN Raise("cache capacity must be integer")
  ELSE IF a.n <= 0 THEN Raise("cache capacity must be greater than 0")
  ELSE IF cls \in TTLVariants /\ b \notin IntegerArgs THEN Raise("cache ttl must be integer")
  ELSE IF cls \in TTLVariants /\ b.n <= 0 THEN Raise("cache ttl must be greater than 0")
  ELSE Constructed(a.n, IF cls \in TTLVariants THEN b.n ELSE 0)

ClearOn(st) ==
  CASE variant = "LRUCache" -> LRUClear(st)
    [] variant = "LRUCacheWithTTL" -> LRUTTLClear(st)
    [] variant = "LFUCache" -> LFUClear(st)
    [] OTHER -> LFUTTLClear(st)

HasOn(st, k) ==
  CASE variant = "LRUCache" -> LRUHas(st, k)
    [] variant = "LRUCacheWithTTL" -> LRUTTLHas(st, k, now).ret
    [] variant = "LFUCache" -> LFUHas(st, k)
    [] OTHER -> LFUTTLHas(st, k, now).ret

\* the fields of a state record a constructor leaves: no entry, no list node, size 0
Fresh(st) ==
  /\ st.cache = MapEmpty
  /\ IF variant \in RecencyVariants THEN st.list = EmptyList
     ELSE st.freqMap = MapEmpty /\ st.minFreq = 0 /\ st.size = 0

\* C18: in every variant clear() leaves the fields of a freshly constructed
\* cache (size 0, has false for every key, minFreq 0), a second clear()
\* changes nothing more, and afterwards set(k, v) returns normally, get(k)
\* gives v and size is 1.
C18_ClearResets ==
  LET c == ClearOn(Cur) IN
  /\ Fresh(c)
  /\ SizeIn(c) = 0
  /\ \A k \in Keys : ~HasOn(c, k)
  /\ ClearOn(c) = c
  /\ \A k \in Keys : \A v \in Values :
       LET r == SetOn(c, k, v)
           g == GetOn(r.st, k)
       IN ~r.threw /\ ~g.threw /\ g.ret = v /\ SizeIn(g.st) = 1

\* delete(k) of the current variant as [threw, ret, st]
DeleteOn(st, k) ==
  CASE variant = "LRUCache" -> [threw |-> FALSE] @@ LRUDelete(st, k)
    [] variant = "LRUCacheWithTTL" -> [threw |-> FALSE] @@ LRUTTLDelete(st, k, now)
    [] variant = "LFUCache" -> LFUDelete(st, k)
    [] OTHER -> [threw |-> FALSE] @@ LFUTTLDelete(st, k, now)

\* get and delete of a key that has reports absent
CacheFailuresAreValues ==
  \A k \in IdentityKeys \cup MoreKeys :
    ~HasOn(Cur, k) =>
      \A g \in {GetOn(Cur, k)} : \A d \in {DeleteOn(Cur, k)} :
        /\ ~g.threw
        /\ g.ret = "undefined"
        /\ ~d.threw
        /\ d.ret = FALSE
        /\ variant \notin TTLVariants => g.st = Cur /\ d.st = Cur

\* a list call that returned ret and touched nothing
Untouched(r, ret) == ~r.threw /\ r.ret = ret /\ r.nodes = nodes /\ r.list = list

\* the index calls outside the range and the removals on an empty list
ListFailuresAreValues ==
  /\ \A i \in {-1} \cup (list.size .. list.size + 1) :
       /\ Untouched(Get(nodes, list, i), "undefined")
       /\ Untouched(Remove(nodes, list, i), FALSE)
       /\ \A v \in Values : Untouched(Set(nodes, list, i, v), FALSE)
  /\ \A i \in {-1, list.size + 1} :
       \A v \in Values : Untouched(Insert(nodes, list, i, v), FALSE)
  /\ IsEmpty(list) =>
       /\ Untouched(Pop(nodes, list), "undefined")
       /\ Untouched(Shift(nodes, list), "undefined")
       /\ ~RemoveTail(nodes, list).threw
       /\ RemoveTail(nodes, list).node = Undefined
       /\ RemoveTail(nodes, list).nodes = nodes
       /\ RemoveTail(nodes, list).list = list

\* C19: a failure is a value, never an error: in every cache get of a key that
\* is absent returns none and delete of it returns false, in the list get, set
\* and remove at an index below 0 or at or above size and insert at an index
\* below 0 or above size return none or false, and pop, shift and removeTail
\* of an empty list return none; none of these calls raises, and in the caches
\* without expiry and in the list none of them changes the state.
C19_FailuresAreValues ==
  IF variant = "DoublyLinkedList" THEN ListFailuresAreValues ELSE CacheFailuresAreValues

\* a list of two elements, where index 2 is out of range for get and 3 for insert
C19_Witness ==
  /\ variant = "DoublyLinkedList"
  /\ list.size = 2
  /\ Get(nodes, list, 1).ret \in Values
  /\ Get(nodes, list, 2).ret = "undefined"
  /\ Insert(nodes, list, 3, "v1").ret = FALSE

\* addToHead(n) of the current list, with the nodes ns, as claimed
AddToHeadAsClaimed(ns, n) ==
  \A r \in {AddToHead(ns, list, n)} :
    IF ns[n].prev # Undefined \/ ns[n].next # Undefined
    THEN /\ r.threw
         /\ r.err = OwnershipError
         /\ r.nodes = ns
         /\ r.list = list
    ELSE /\ ~r.threw
         /\ r.list.head = Ref(n)
         /\ r.list.size = list.size + 1
         /\ list.head # Ref(n) => r.nodes[n].prev = Undefined
         /\ IF IsEmpty(list)
            THEN /\ r.nodes[n].next = Undefined
                 /\ r.list.tail = Ref(n)
            ELSE /\ r.nodes[n].next = list.head
                 /\ r.nodes[list.head.id].prev = Ref(n)
                 /\ r.list.tail = list.tail
         /\ \A m \in DOMAIN ns :
              /\ r.nodes[m].value = ns[m].value
              /\ m # n => r.nodes[m].next = ns[m].next
              /\ (m # n /\ Ref(m) # list.head) => r.nodes[m].prev = ns[m].prev

\* the heap with one more node, just constructed
WithNewNode(v) == MapPut(nodes, NewListNode(nodes), DoublyLinkedListNode(v, Undefined, Undefined))

\* C20: addToHead(node) of a node whose prev or next is set raises the
\* ownership error and leaves head, tail, size and every link as they were;
\* of a node with neither set (one the caller holds or one just constructed)
\* it raises nothing, makes the node the head with the old head, if there is
\* one, as its successor, and size is one more.
C20_AddToHeadOwnership ==
  variant = "DoublyLinkedList" =>
    /\ \A n \in Handles : AddToHeadAsClaimed(nodes, n)
    /\ \A v \in Values : AddToHeadAsClaimed(WithNewNode(v), NewListNode(nodes))

\* removeNode(n) of the current list, with the nodes ns, as claimed
RemoveNodeAsClaimed(ns, n) ==
  \A r \in {RemoveNode(ns, list, n)} :
    /\ IsEmpty(list) \/ WalkEnds(ns, list.head, n, Fuel)
    /\ r.ok = (n \in SeqToSet(ListNodes(ns, list)))
    /\ IF r.ok
       THEN /\ r.nodes[n].prev = Undefined
            /\ r.nodes[n].next = Undefined
            /\ r.list.size = list.size - 1
            /\ ListNodes(r.nodes, r.list) = Drop(ListNodes(ns, list), n)
            /\ \A m \in DOMAIN ns : r.nodes[m].value = ns[m].value
       ELSE r.nodes = ns /\ r.list = list

\* removeTail() of the current list as claimed
RemoveTailAsClaimed ==
  \A t \in {RemoveTail(nodes, list)} :
    /\ ~t.threw
    /\ IF IsEmpty(list)
       THEN t.node = Undefined /\ t.nodes = nodes /\ t.list = list
       ELSE /\ t.node = list.tail
            /\ IsRef(t.node)
            /\ t.nodes[t.node.id].prev = Undefined
            /\ t.nodes[t.node.id].next = Undefined
            /\ t.list.size = list.size - 1
            /\ ListNodes(t.nodes, t.list) = Front(ListNodes(nodes, list))
            /\ ~AddToHead(t.nodes, t.list, t.node.id).threw

\* C21: removeNode(n) returns true exactly when n is on the chain of the
\* list; then both links of n are cleared, size is one less and the other
\* nodes keep their order; for a node of no list or of another chain it
\* returns false and nothing changes. removeTail() returns none on an empty
\* list and otherwise the tail, detached with both links cleared, so that
\* addToHead accepts it again.
C21_RemoveNodeAndTail ==
  variant = "DoublyLinkedList" =>
    /\ \A n \in Handles : RemoveNodeAsClaimed(nodes, n)
    /\ \A v \in Values : RemoveNodeAsClaimed(WithNewNode(v), NewListNode(nodes))
    /\ RemoveTailAsClaimed

\* ---- the list beside an abstract sequence ----

\* the abstract sequence: insertion before position i and removal of position i,
\* counted from 0
SeqInsert(s, i, v) == SubSeq(s, 1, i) \o <<v>> \o SubSeq(s, i + 1, Len(s))

SeqRemove(s, i) == SubSeq(s, 1, i) \o SubSeq(s, i + 2, Len(s))

\* the heap ns with list L shows the sequence s: iteration, front(), back() and size
Shows(ns, L, s) ==
  /\ Iterate(ns, L).ends
  /\ Iterate(ns, L).values = s
  /\ L.size = Len(s)
  /\ FrontValue(ns, L) = (IF s = <<>> THEN "undefined" ELSE s[1])
  /\ BackValue(ns, L) = (IF s = <<>> THEN "undefined" ELSE s[Len(s)])

\* the call r returned ret and left the sequence s
Agrees(r, ret, s) == ~r.threw /\ r.ret = ret /\ Shows(r.nodes, r.list, s)

\* every index operation on the current list does what the sequence operation does
ListFollowsSequence(s) ==
  /\ Shows(nodes, list, s)
  /\ \A v \in Values :
       /\ Agrees(Push(nodes, list, v), "this", Append(s, v))
       /\ Agrees(Unshift(nodes, list, v), "this", <<v>> \o s)
       /\ \A i \in -2 .. Len(s) + 2 :
            IF 0 <= i /\ i <= Len(s)
            THEN Agrees(Insert(nodes, list, i, v), TRUE, SeqInsert(s, i, v))
            ELSE Insert(nodes, list, i, v) = Returned(FALSE, nodes, list)
  /\ \A i \in -2 .. Len(s) + 2 :
       IF 0 <= i /\ i < Len(s)
       THEN Agrees(Remove(nodes, list, i), TRUE, SeqRemove(s, i))
       ELSE Remove(nodes, list, i) = Returned(FALSE, nodes, list)
  /\ IF s = <<>>
     THEN /\ Pop(nodes, list) = Returned("undefined", nodes, list)
          /\ Shift(nodes, list) = Returned("undefined", nodes, list)
     ELSE /\ Agrees(Pop(nodes, list), s[Len(s)], Front(s))
          /\ Agrees(Shift(nodes, list), s[1], Tail(s))

\* C22: a list built by push, unshift, pop, shift, insert and remove agrees with the
\* abstract sequence of its values: iteration, front(), back() and size show the
\* sequence, each operation changes it as the sequence operation does, pop and shift
\* return the removed value, insert returns false and changes nothing outside
\* 0 <= i <= size and remove outside 0 <= i < size
C22_ListMatchesSequence ==
  variant = "DoublyLinkedList" => \A s \in {Iterate(nodes, list).values} : ListFollowsSequence(s)

\* C22 witness: a list of at least four values that are not all equal, where insert and
\* remove reach an inner position
C22_Witness ==
  /\ variant = "DoublyLinkedList"
  /\ list.size >= 4
  /\ \E v \in Values : Insert(nodes, list, 2, v).ret = TRUE /\ Remove(nodes, list, 2).ret = TRUE
  /\ FrontValue(nodes, list) # BackValue(nodes, list)

\* get and set of the current list against the sequence s of its values
GetSetFollowSequence(s) ==
  \A i \in -2 .. Len(s) + 2 :
    IF 0 <= i /\ i < Len(s)
    THEN /\ Get(nodes, list, i) = Returned(s[i + 1], nodes, list)
         /\ \A v \in Values : \A r \in {Set(nodes, list, i, v)} :
              /\ Agrees(r, TRUE, [s EXCEPT ![i + 1] = v])
              /\ r.list = list
              /\ \A n \in DOMAIN nodes :
                   r.nodes[n].prev = nodes[n].prev /\ r.nodes[n].next = nodes[n].next
    ELSE /\ Get(nodes, list, i) = Returned("undefined", nodes, list)
         /\ \A v \in Values : Set(nodes, list, i, v) = Returned(FALSE, nodes, list)

C23_WitnessEven ==
  /\ variant = "DoublyLinkedList"
  /\ list.size = 4
  /\ GetNode(nodes, list, 2) = Steps(nodes, list.tail, "prev", 1)
  /\ Get(nodes, list, 1).ret # Get(nodes, list, 2).ret

\* the sequence s backwards
Rev(s) == [i \in 1 .. Len(s) |-> s[Len(s) + 1 - i]]

\* the values met from cur on by prev links, as far as fuel reaches
RECURSIVE YieldsBack(_, _, _)
YieldsBack(ns, cur, fuel) ==
  IF ~IsRef(cur) \/ fuel = 0 THEN <<>>
  ELSE <<ns[cur.id].value>> \o YieldsBack(ns, ns[cur.id].prev, fuel - 1)

\* the prev links of list L mirror its next links
LinksConsistent(ns, L) ==
  /\ YieldsBack(ns, L.tail, Rounds(ns)) = Rev(Iterate(ns, L).values)
  /\ IsRef(L.head) => ns[L.head.id].prev = Undefined
  /\ IsRef(L.tail) => ns[L.tail.id].next = Undefined

\* reverse() of the current list, whose values are s
ReverseAsClaimed(s) ==
  \A r \in {Reverse(nodes, list)} :
    /\ Agrees(r, "this", Rev(s))
    /\ LinksConsistent(r.nodes, r.list)
    /\ list.size <= 1 => r = Returned("this", nodes, list)
    /\ \A v \in Values :
         /\ Agrees(Push(r.nodes, r.list, v), "this", Append(Rev(s), v))
         /\ Agrees(Unshift(r.nodes, r.list, v), "this", <<v>> \o Rev(s))
    /\ \A i \in 0 .. Len(s) - 1 : Get(r.nodes, r.list, i) = Returned(Rev(s)[i + 1], r.nodes, r.list)
    /\ \A rr \in {Reverse(r.nodes, r.list)} :
         Agrees(rr, "this", s) /\ rr.nodes = nodes /\ rr.list = list

ValuesByIndex == [i \in 1 .. list.size |-> Get(nodes, list, i - 1).ret]

\* drain() of the current list, whose values are s: the first k values and what is left
DrainAsClaimed(s) ==
  /\ \A k \in 0 .. Len(s) : \A d \in {DrainLoop(nodes, list, <<>>, k)} :
       /\ ~d.threw
       /\ d.values = SubSeq(s, 1, k)
       /\ d.list.size = list.size - k
       /\ Shows(d.nodes, d.list, SubSeq(s, k + 1, Len(s)))
       /\ d.ends = (k = Len(s))
  /\ \A d \in {Drain(nodes, list)} :
       /\ ~d.threw /\ d.ends
       /\ d.values = s
       /\ d.list = EmptyList
       /\ DrainNext(d.nodes, d.list).ret = "done"

EvictsTailOn(k, v) ==
  \A r \in {SetOn(Cur, k, v)} :
    /\ ~r.threw
    /\ IsRef(list.tail)
    /\ \A t \in {list.tail.id} :
         /\ Order(r.st) = <<r.st.cache[PropName(k)]>> \o Front(Order(Cur))
         /\ r.st.nodes[t].prev = Undefined /\ r.st.nodes[t].next = Undefined
         /\ \A e \in Keys : cache[PropName(e)] = t =>
              PropName(e) \notin DOMAIN r.st.cache /\ ~HasOn(r.st, e)
         /\ DOMAIN r.st.cache = (DOMAIN cache \cup {PropName(k)}) \ {p \in DOMAIN cache : cache[p] = t}
    /\ SizeIn(r.st) = capacity

\* C26: in both recency caches set of a new key on a cache that holds `capacity` keys
\* detaches exactly the tail of the list and removes the tail's key from the map,
\* whatever the key is (0 and '' included); has of the evicted key is then false
C26_EvictionRemovesTail ==
  (variant \in RecencyVariants /\ Cardinality(DOMAIN cache) = capacity) =>
    \A k \in {j \in Keys : PropName(j) \notin DOMAIN cache} : \A v \in Values : EvictsTailOn(k, v)

\* ---- the ownership error and the cache API ----

\* no call of the cache API on the current cache raises
NoCallRaises ==
  /\ \A k \in Keys : \A v \in Values : ~SetOn(Cur, k, v).threw
  /\ \A k \in Keys : ~GetOn(Cur, k).threw /\ ~DeleteOn(Cur, k).threw

\* the first set of a new key on a fresh cache returns and stores the entry
FirstSetSucceeds ==
  Fresh(Cur) =>
    \A k \in Keys : \A v \in Values : \A r \in {SetOn(Cur, k, v)} :
      ~r.threw /\ HasOn(r.st, k) /\ SizeIn(r.st) = 1

\* C27: no call of the cache API reaches the ownership error of addToHead ('node is
\* already part of a list') in any of the four variants, and the first set of a new key
\* on a fresh cache returns normally
C27_OwnershipErrorUnreachable == NoCallRaises /\ FirstSetSucceeds

\* ---- the frequency buckets ----

\* the frequencies under which #freqMap holds a list that links node n
BucketsOf(n) == {f \in DOMAIN freqMap : n \in SeqToSet(ListNodes(nodes, freqMap[f]))}

\* C28: in both frequency caches every cached entry has freq >= 1 and is linked into
\* exactly one list of #freqMap, the one registered under the entry's own freq
C28_EntryInItsOwnBucket ==
  variant \in FrequencyVariants =>
    \A p \in DOMAIN cache : \A n \in {cache[p]} :
      /\ nodes[n].freq >= 1
      /\ BucketsOf(n) = {nodes[n].freq}
      /\ Cardinality({i \in 1 .. Len(Bucket(CurLFU, nodes[n].freq)) :
                        Bucket(CurLFU, nodes[n].freq)[i] = n}) = 1

\* C28 witness: two cached entries with different frequencies, one of them raised by a
\* get or a set of its key
C28_Witness ==
  /\ variant \in FrequencyVariants
  /\ \E p, q \in DOMAIN cache :
       /\ nodes[cache[p]].freq = 1
       /\ nodes[cache[q]].freq > 1
       /\ BucketsOf(cache[p]) = {1}
       /\ BucketsOf(cache[q]) = {nodes[cache[q]].freq}

\* ---- minFreq ----

\* the lowest frequency of a cached entry of state st, 0 when there is none
LowestFreq(st) ==
  IF DOMAIN st.cache = {} THEN 0
  ELSE SetMin({st.nodes[st.cache[p]].freq : p \in DOMAIN st.cache})

\* C29: in both frequency caches #minFreq is the lowest frequency that has a cached
\* entry whenever the cache holds one, also after a delete or a lazy removal of an
\* expired entry emptied the list under #minFreq, and 0 when no entry remains
C29_MinFreqIsLowestFrequency ==
  variant \in FrequencyVariants => minFreq = LowestFreq(CurLFU)

\* ---- promotion ----

\* the frequencies in use before or after a call
FreqsOf(st) == DOMAIN st.freqMap \cup {st.nodes[st.cache[p]].freq : p \in DOMAIN st.cache}

\* the call that left state st promoted node n, whose frequency was f, by one step
PromotedBy(st, n, f) ==
  /\ st.nodes[n].freq = f + 1
  /\ f + 1 \in DOMAIN st.freqMap
  /\ Bucket(st, f + 1) = <<n>> \o Bucket(CurLFU, f + 1)
  /\ Bucket(st, f) = Drop(Bucket(CurLFU, f), n)
  /\ \A g \in (FreqsOf(st) \cup FreqsOf(CurLFU)) \ {f, f + 1} : Bucket(st, g) = Bucket(CurLFU, g)
  /\ st.cache = cache
  /\ \A p \in DOMAIN cache : cache[p] # n => st.nodes[cache[p]].freq = nodes[cache[p]].freq
  /\ st.size = lfuSize
  /\ st.minFreq = (IF Bucket(st, f) = <<>> /\ f = minFreq THEN minFreq + 1 ELSE minFreq)

\* C30: in both frequency caches a get(k) and a set(k, v) of a key that has reports
\* present raise the entry's freq by exactly 1, put it at the head of the list of the
\* new frequency (created when missing), keep size and the freq and the position of
\* every other entry, and raise #minFreq by 1 exactly when the entry's old list became
\* empty and was the list under #minFreq
C30_PromotionByOne ==
  variant \in FrequencyVariants =>
    \A k \in {j \in Keys : HasOn(Cur, j)} : \A n \in {cache[PropName(k)]} :
      /\ \A g \in {GetOn(Cur, k)} : ~g.threw /\ PromotedBy(g.st, n, nodes[n].freq)
      /\ \A v \in Values : \A s \in {SetOn(Cur, k, v)} :
           ~s.threw /\ PromotedBy(s.st, n, nodes[n].freq)

\* C30 witness: one entry under the minimum frequency 1 and one promoted to 2; a get of
\* the promoted entry creates the list under 3 and leaves #minFreq at 1, a get of the
\* other entry empties the list under #minFreq and raises #minFreq to 2
C30_Witness ==
  /\ variant \in FrequencyVariants
  /\ minFreq = 1
  /\ \E k \in Keys :
       /\ HasOn(Cur, k)
       /\ nodes[cache[PropName(k)]].freq = 2
       /\ GetOn(Cur, k).st.nodes[cache[PropName(k)]].freq = 3
       /\ GetOn(Cur, k).st.minFreq = 1
       /\ 3 \notin DOMAIN freqMap
  /\ \E k \in Keys :
       /\ HasOn(Cur, k)
       /\ nodes[cache[PropName(k)]].freq = 1
       /\ GetOn(Cur, k).st.minFreq = 2

\* ---- insertion of a new key in the frequency caches ----

\* the call that left state st inserted the new key k after evicting at most one entry
InsertedNew(st, k) ==
  /\ PropName(k) \in DOMAIN st.cache
  /\ \A n \in {st.cache[PropName(k)]} :
       /\ st.nodes[n].freq = 1
       /\ Bucket(st, 1) # <<>> /\ Head(Bucket(st, 1)) = n
  /\ st.minFreq = 1
  /\ DOMAIN st.cache \subseteq DOMAIN cache \cup {PropName(k)}
  /\ IF lfuSize >= capacity
     THEN Cardinality(DOMAIN cache \ DOMAIN st.cache) = 1 /\ st.size = lfuSize
     ELSE DOMAIN cache \ DOMAIN st.cache = {} /\ st.size = lfuSize + 1

\* C31: in both frequency caches set of a new key inserts the entry with freq 1 at the
\* head of the list under 1 and sets #minFreq to 1 whatever it was, after evicting
\* exactly one entry when size >= capacity and none otherwise; size grows by 1 without
\* eviction and is unchanged with it
C31_NewKeyInsertion ==
  variant \in FrequencyVariants =>
    \A k \in {j \in Keys : PropName(j) \notin DOMAIN cache} : \A v \in Values :
      \A s \in {SetOn(Cur, k, v)} : ~s.threw /\ InsertedNew(s.st, k)

\* C31 witness: a full cache whose #minFreq is above 1 and a key it does not hold, so
\* the set evicts and lowers #minFreq to 1
C31_Witness ==
  /\ variant \in FrequencyVariants
  /\ lfuSize = capacity
  /\ minFreq > 1
  /\ \E k \in Keys :
       /\ PropName(k) \notin DOMAIN cache
       /\ SetOn(Cur, k, "v1").st.minFreq = 1
       /\ SetOn(Cur, k, "v1").st.size = capacity

\* ---- the size counter of the frequency caches ----

\* all nodes linked into the lists of #freqMap of state st
BucketNodes(st) == UNION {SeqToSet(Bucket(st, f)) : f \in DOMAIN st.freqMap}

\* size, the number of keys of the map and the number of nodes over all lists agree,
\* and each list counts its own nodes
SizeCounterAgrees(st) ==
  /\ st.size = Cardinality(DOMAIN st.cache)
  /\ st.size = Cardinality(BucketNodes(st))
  /\ \A f \in DOMAIN st.freqMap :
       /\ st.freqMap[f].size = Len(Bucket(st, f))
       /\ Cardinality(SeqToSet(Bucket(st, f))) = Len(Bucket(st, f))
  /\ \A f, g \in DOMAIN st.freqMap :
       f # g => SeqToSet(Bucket(st, f)) \cap SeqToSet(Bucket(st, g)) = {}

\* the removal that left state st took the entry under property p, and nothing else,
\* out of map and lists, lowered size by one and left #minFreq at the lowest frequency
\* that still has an entry
RemovedCompletely(st, p) ==
  /\ DOMAIN st.cache = DOMAIN cache \ {p}
  /\ BucketNodes(st) = BucketNodes(CurLFU) \ {cache[p]}
  /\ st.size = lfuSize - 1
  /\ SizeCounterAgrees(st)
  /\ st.minFreq = LowestFreq(st)

\* the three removal paths of LFUCacheWithTTL on the current cache
RemovalPathsAgree ==
  /\ \A k \in {j \in Keys : PropName(j) \in DOMAIN cache} :
       IF IsExpired(nodes[cache[PropName(k)]].value, now)
       THEN RemovedCompletely(LFUTTLHas(CurLFU, k, now).st, PropName(k))
       ELSE RemovedCompletely(LFUTTLDelete(CurLFU, k, now).st, PropName(k))
  /\ lfuSize >= capacity =>
       \E p \in DOMAIN cache : RemovedCompletely(LFUTTLRemoveMinFreqNode(CurLFU), p)

\* C32: in both frequency caches size equals the number of keys of the map and the
\* number of nodes over all lists of #freqMap in every reachable state; in
\* LFUCacheWithTTL the lazy removal of an expired entry, delete and the eviction each
\* lower size by exactly 1 and update map, list and #minFreq together
C32_SizeCounterConsistent ==
  variant \in FrequencyVariants =>
    /\ SizeCounterAgrees(CurLFU)
    /\ variant = "LFUCacheWithTTL" => RemovalPathsAgree

\* ---- expired entries of LFUCacheWithTTL ----

\* the keys whose entry is in the map of the current TTL cache and has expired
ExpiredKeys == {k \in Keys : PropName(k) \in ExpiredAt(Cur, now)}

\* get(k) of an expired entry: removal, undefined, no list made or changed but the one
\* the entry leaves
ExpiredGet(k) ==
  \A g \in {LFUTTLGet(CurLFU, k, now)} : \A n \in {cache[PropName(k)]} :
    /\ ~g.threw
    /\ g.ret = "undefined"
    /\ RemovedCompletely(g.st, PropName(k))
    /\ DOMAIN g.st.freqMap \subseteq DOMAIN freqMap
    /\ \A f \in DOMAIN freqMap :
         Bucket(g.st, f) = (IF f = nodes[n].freq THEN Drop(Bucket(CurLFU, f), n)
                            ELSE Bucket(CurLFU, f))
    /\ \A p \in DOMAIN g.st.cache :
         g.st.cache[p] = cache[p]
           /\ g.st.nodes[cache[p]].freq = nodes[cache[p]].freq
           /\ g.st.nodes[cache[p]].value = nodes[cache[p]].value

\* set(k, v) of an expired entry: a fresh entry with freq 1 and a new expiry
ExpiredSet(k, v) ==
  \A s \in {LFUTTLSet(CurLFU, k, v, now)} :
    /\ ~s.threw
    /\ DOMAIN s.st.cache = DOMAIN cache
    /\ \A n \in {s.st.cache[PropName(k)]} :
         /\ s.st.nodes[n].freq = 1
         /\ s.st.nodes[n].value = ValueWithTTL(v, ttl, now)
         /\ Head(Bucket(s.st, 1)) = n
         /\ n \notin SeqToSet(Bucket(s.st, nodes[cache[PropName(k)]].freq + 1))
    /\ s.st.size = lfuSize
    /\ SizeCounterAgrees(s.st)
    /\ s.st.minFreq = 1
    /\ \A p \in DOMAIN cache \ {PropName(k)} :
         s.st.cache[p] = cache[p]
           /\ s.st.nodes[cache[p]].freq = nodes[cache[p]].freq
           /\ s.st.nodes[cache[p]].value = nodes[cache[p]].value

\* C33: in LFUCacheWithTTL get(k) and set(k, v) of an entry whose TTL has elapsed first
\* remove it completely (map, list, size, #minFreq); get then returns undefined without
\* making or changing any other list, and set inserts k as a fresh entry with freq 1
\* and a new expiry instead of raising the old frequency
C33_ExpiredEntryNotPromoted ==
  variant = "LFUCacheWithTTL" =>
    \A k \in ExpiredKeys : ExpiredGet(k) /\ \A v \in Values : ExpiredSet(k, v)

\* ---- the structure of the list ----

\* the list L of heap ns is a chain: size nodes from head by next, ending at tail, no
\* node twice, head and tail undefined together with size 0, nothing before the head
\* and nothing after the tail, and each link matched by the link back
WellFormed(ns, L) ==
  \A c \in {ListNodes(ns, L)} :
    /\ L.size = Len(c)
    /\ \A i, j \in 1 .. Len(c) : i # j => c[i] # c[j]
    /\ (L.size = 0) = (L.head = Undefined)
    /\ (L.size = 0) = (L.tail = Undefined)
    /\ L.size > 0 =>
         /\ L.tail = Ref(c[Len(c)])
         /\ ns[c[1]].prev = Undefined
         /\ ns[c[Len(c)]].next = Undefined
    /\ \A i \in 1 .. Len(c) :
         /\ IsRef(ns[c[i]].next) => ns[ns[c[i]].next.id].prev = Ref(c[i])
         /\ IsRef(ns[c[i]].prev) => ns[ns[c[i]].prev.id].next = Ref(c[i])

\* C34: after any sequence of push, pop, shift, unshift, insert, remove, set, reverse,
\* clear, drain, addToHead of an unattached node, removeTail and removeNode, size is the
\* number of nodes reachable from head by next links, which end at tail; head and tail
\* are undefined exactly when size = 0; head.prev and tail.next are undefined; and
\* n.next.prev = n and n.prev.next = n for every node n of the list
C34_ListWellFormed == variant = "DoublyLinkedList" => WellFormed(nodes, list)

\* C34 witness: a list of two different values with the links of a chain, while the
\* caller holds a node that removeNode or removeTail detached from it
C34_Witness ==
  /\ variant = "DoublyLinkedList"
  /\ list.size = 2
  /\ nodes[list.head.id].next = list.tail /\ nodes[list.tail.id].prev = list.head
  /\ \E n \in held :
       /\ n \notin SeqToSet(ListNodes(nodes, list))
       /\ ~RemoveNode(nodes, list, n).ok
       /\ ~AddToHead(nodes, list, n).threw
  /\ FrontValue(nodes, list) # BackValue(nodes, list)

\* ---- ownership of nodes ----

\* addToHead refuses every node the caller holds that is an element of the current list
AttachedNodesRejected ==
  \A n \in Handles \cap SeqToSet(ListNodes(nodes, list)) :
    \A r \in {AddToHead(nodes, list, n)} : r.threw /\ r.err = OwnershipError

\* no node is met twice on the way from head along the next links
NoNodeTwice ==
  \A c \in {ListNodes(nodes, list)} : \A i, j \in 1 .. Len(c) : i # j => c[i] # c[j]

\* C35: a node is owned by at most one list at a time: addToHead rejects attached
\* nodes, the only element of a list included, so no sequence of addToHead, removeNode
\* and removeTail leaves a node reachable twice (a cycle) within a list
C35_NodeOwnedOnce ==
  variant = "DoublyLinkedList" => AttachedNodesRejected /\ NoNodeTwice

\* ---- lazy expiry ----

\* has(k) of the current TTL cache as [ret, st]
TTLHasOn(st, k) ==
  IF variant = "LRUCacheWithTTL" THEN LRUTTLHas(st, k, now) ELSE LFUTTLHas(st, k, now)

\* the property names of a state's map
Stored(st) == DOMAIN st.cache

\* every entry of the map, expired or not, is linked and counted in size
EntriesKeptAndCounted == DOMAIN cache = LinkedKeys /\ Size = Cardinality(DOMAIN cache)

\* a call on another key leaves the expired entry of k where it is
ExpiredStaysUntilTouched(k) ==
  \A j \in Keys \ {k} :
    /\ PropName(k) \in Stored(TTLHasOn(Cur, j).st)
    /\ PropName(k) \in Stored(GetOn(Cur, j).st)
    /\ PropName(k) \in Stored(DeleteOn(Cur, j).st)

\* has(k) of an entry that is not expired reports it and removes nothing
LiveNotRemoved(k) == TTLHasOn(Cur, k) = [ret |-> TRUE, st |-> Cur]

\* C36: expiry is lazy in both TTL caches: an expired entry stays in the map and the
\* list and is counted in size until has, get, set or delete touches its key (or
\* cleanupExpired runs), and no entry is removed for expiry while now < its expiry
C36_LazyExpiry ==
  variant \in TTLVariants =>
    /\ EntriesKeptAndCounted
    /\ \A k \in Keys :
         PropName(k) \in DOMAIN cache =>
           IF PropName(k) \in ExpiredAt(Cur, now) THEN ExpiredStaysUntilTouched(k)
           ELSE LiveNotRemoved(k)

\* ---- has and the lifetime of entries ----

\* has(k) at time t on state st of the current TTL cache: [ret, st]
TTLHasAt(st, k, t) ==
  IF variant = "LRUCacheWithTTL" THEN LRUTTLHas(st, k, t) ELSE LFUTTLHas(st, k, t)

\* has(k) of an entry that is not expired changes nothing, and has at the entry's
\* expiry, after any number of earlier has calls, finds it expired
HasKeepsExpiry(k) ==
  \A h \in {TTLHasAt(Cur, k, now)} : \A e \in {nodes[cache[PropName(k)]].value.expiry} :
    /\ h = [ret |-> TRUE, st |-> Cur]
    /\ \A t \in now .. e - 1 : TTLHasAt(h.st, k, t) = h
    /\ ~TTLHasAt(h.st, k, e).ret
    /\ PropName(k) \notin DOMAIN TTLHasAt(h.st, k, e).st.cache

\* C37: has(k) never influences eviction or lifetime: in LRUCache and LFUCache it only
\* reports whether the map holds the key, and in the TTL variants has(k) of an entry
\* that is not expired neither resets its expiry nor promotes it, so repeated has(k)
\* calls do not keep the entry past its expiry
C37_HasIsPassive ==
  /\ variant = "LRUCache" => \A k \in Keys : LRUHas(CurLRU, k) = (PropName(k) \in DOMAIN cache)
  /\ variant = "LFUCache" => \A k \in Keys : LFUHas(CurLFU, k) = (PropName(k) \in DOMAIN cache)
  /\ variant \in TTLVariants =>
       \A k \in Keys : PropName(k) \in DOMAIN cache \ ExpiredAt(Cur, now) => HasKeepsExpiry(k)

\* C37 witness: a frequency cache with expiry holding an entry one tick before its
\* expiry that is not at the head of the list under 1, after time has passed
C37_Witness ==
  /\ variant = "LFUCacheWithTTL"
  /\ now > 0
  /\ \E k \in Keys :
       /\ PropName(k) \in DOMAIN cache
       /\ Bucket(CurLFU, 1) # <<>> /\ cache[PropName(k)] # Head(Bucket(CurLFU, 1))
       /\ nodes[cache[PropName(k)]].value.expiry = now + 1
       /\ TTLHasAt(Cur, k, now).ret
       /\ ~TTLHasAt(Cur, k, now + 1).ret

\* ---- delete of an expired entry ----

\* delete(k) of an entry that has expired: false, and the entry leaves map and list
DeleteOfExpired(k) ==
  \A d \in {DeleteOn(Cur, k)} : \A n \in {cache[PropName(k)]} :
    /\ ~d.threw
    /\ d.ret = FALSE
    /\ DOMAIN d.st.cache = DOMAIN cache \ {PropName(k)}
    /\ n \in LinkedNodes(nodes, list, freqMap)
    /\ n \notin (IF variant = "LRUCacheWithTTL" THEN LinkedNodes(d.st.nodes, d.st.list, MapEmpty)
                 ELSE LinkedNodes(d.st.nodes, EmptyList, d.st.freqMap))
    /\ SizeIn(d.st) = Size - 1

\* C38: in both TTL caches delete(k) of a key whose entry has expired returns false
\* although the call removes the entry from map and list and lowers size by 1;
\* delete(k) returns true only when the entry exists and is not expired
C38_DeleteOfExpiredReportsAbsent ==
  variant \in TTLVariants =>
    \A k \in Keys :
      /\ PropName(k) \in ExpiredAt(Cur, now) => DeleteOfExpired(k)
      /\ DeleteOn(Cur, k).ret = TRUE => PropName(k) \in DOMAIN cache \ ExpiredAt(Cur, now)

\* ---- eviction and expiry ----

\* the node the policy names as victim: the tail of the list, or the tail of the list
\* under #minFreq
Victim ==
  IF variant = "LRUCacheWithTTL" THEN list.tail
  ELSE IF minFreq \in DOMAIN freqMap THEN freqMap[minFreq].tail ELSE Undefined

\* set(k, v) of a new key on a full TTL cache evicts the victim, expired or not, and
\* keeps every other entry, expired or not
EvictsByPolicyOnly(k, v) ==
  \A s \in {SetOn(Cur, k, v)} :
    /\ ~s.threw
    /\ IsRef(Victim)
    /\ \A e \in {p \in DOMAIN cache : cache[p] = Victim.id} :
         DOMAIN s.st.cache = (DOMAIN cache \ {e}) \cup {PropName(k)}
    /\ SizeIn(s.st) = capacity

\* C39: in both TTL caches the eviction of a set of a new key at full capacity picks
\* its victim by recency (the list tail) or by minimum frequency, then recency (the
\* tail of the list under #minFreq), without looking at expiry: the victim may be an
\* entry that is not expired while expired entries stay in the cache
C39_EvictionIgnoresExpiry ==
  (variant \in TTLVariants /\ Cardinality(DOMAIN cache) >= capacity) =>
    \A k \in {j \in Keys : PropName(j) \notin DOMAIN cache} : \A v \in Values :
      EvictsByPolicyOnly(k, v)

\* ---- the list the eviction reads ----

\* C40: in LFUCache, whenever size >= capacity, #freqMap has a list under the current
\* #minFreq and that list is not empty, so #removeMinFreqNode, called by set of a new
\* key, never reads a missing list or a missing tail node; this holds after any
\* sequence of get, set, delete and clear, also when emptied lists stay in #freqMap
C40_MinFreqBucketPresentWhenFull ==
  (variant = "LFUCache" /\ lfuSize >= capacity) =>
    /\ minFreq \in DOMAIN freqMap
    /\ ~IsEmpty(freqMap[minFreq])
    /\ IsRef(freqMap[minFreq].tail)
    /\ ~LFURemoveMinFreqNode(CurLFU).threw
    /\ \A k \in {j \in Keys : PropName(j) \notin DOMAIN cache} : \A v \in Values :
         ~LFUSet(CurLFU, k, v).threw

\* C40 witness: a full LFUCache whose #freqMap still holds an emptied list below
\* #minFreq, and a key it does not hold
C40_Witness ==
  /\ variant = "LFUCache"
  /\ lfuSize >= capacity
  /\ \E f \in DOMAIN freqMap : IsEmpty(freqMap[f]) /\ f < minFreq
  /\ \E k \in Keys : PropName(k) \notin DOMAIN cache /\ ~LFUSet(CurLFU, k, "v1").threw

====
